---- MODULE Spec2Model ----
(***************************************************************************)
(* A model of app.py: the fetch-or-cache functions over the sqlite store   *)
(* (exchange rates, ETFs, companies, EPS, price history), the ledger       *)
(* conversion and the cumulative gain/loss series, and the Flask routes.   *)
(*                                                                         *)
(* Conventions.                                                            *)
(*   - A date STRING in '%Y-%m-%d' form is the tuple <<y, m, d>>; a date   *)
(*     OBJECT (datetime.date, pandas Timestamp) is its proleptic ordinal,  *)
(*     as date.toordinal() counts it.  strptime / pd.to_datetime is        *)
(*     ToOrdinal, strftime is FromOrdinal.                                 *)
(*   - A table is the sequence of its rows in insertion (rowid) order.     *)
(*   - Money is in cents, an exchange rate in thousandths.                 *)
(*   - The wall clock does not change while one call runs.                 *)
(***************************************************************************)
EXTENDS Integers, Sequences, FiniteSets, TLC

VARIABLES
    today,      \* datetime.date.today(), as an ordinal
    clock,      \* datetime.now()'s time of day, in seconds
    rates,      \* [currency -> table "Rates<CCY>"], rows [Date, Rates]
    etfs,       \* table "ETFs", rows [Symbol, Name, Exchange, LastUpdate]
    companies,  \* table "Companies", rows [Symbol, Name, Exchange]
    eps,        \* table "EPS", rows [Symbol, Q, LastUpdate]
    history,    \* [year -> table "History<year>"], rows [Date, Symbol, ...]
    news,       \* cached_news.json: NoFile, or its JSON text
    images,     \* the files of images/, each <<prefix, timestamp, content>>
    upload,     \* the lines of the file being posted to /converted
    csv,        \* files/converted.csv: NoFile, or the ledger written
    cum,        \* the series the cumulative chart shows: [year, values]
    last,       \* the most recent call: what was called, what it did
    prev,       \* the call before it, in brief
    inflight    \* [request -> where a handler running step by step stands]

vars == <<today, clock, rates, etfs, companies, eps, history, news, images,
          upload, csv, cum, last, prev, inflight>>

-----------------------------------------------------------------------------
(* Calendar: datetime.date, strptime('%Y-%m-%d'), strftime('%Y-%m-%d').    *)

IsLeap(y) == (y % 4 = 0 /\ y % 100 # 0) \/ y % 400 = 0

DaysInMonth(y, m) ==
    IF m = 2 THEN (IF IsLeap(y) THEN 29 ELSE 28)
    ELSE IF m \in {4, 6, 9, 11} THEN 30 ELSE 31

DaysInYear(y) == IF IsLeap(y) THEN 366 ELSE 365

\* Days in the years before year y (date.toordinal's _days_before_year).
DaysBeforeYear(y) ==
    (y - 1) * 365 + ((y - 1) \div 4) - ((y - 1) \div 100) + ((y - 1) \div 400)

RECURSIVE DaysBeforeMonth(_, _)
DaysBeforeMonth(y, m) ==
    IF m = 1 THEN 0 ELSE DaysBeforeMonth(y, m - 1) + DaysInMonth(y, m - 1)

\* strptime(s, '%Y-%m-%d').date() / pd.to_datetime(s): string to date object.
ToOrdinal(s) == DaysBeforeYear(s[1]) + DaysBeforeMonth(s[1], s[2]) + s[3]

\* The years the model's dates live in.
Years == 2019 .. 2021

\* The date with ordinal n (date.fromordinal).
DateOfOrdinal(n) ==
    LET y == CHOOSE yy \in Years :
                 DaysBeforeYear(yy) < n /\ n <= DaysBeforeYear(yy + 1)
        r == n - DaysBeforeYear(y)
        m == CHOOSE mm \in 1 .. 12 :
                 DaysBeforeMonth(y, mm) < r
                 /\ r <= DaysBeforeMonth(y, mm) + DaysInMonth(y, mm)
    IN  <<y, m, r - DaysBeforeMonth(y, m)>>

\* The calendar of the model's years, computed once.
Calendar ==
    [n \in DaysBeforeYear(2019) + 1 .. DaysBeforeYear(2022) |->
        DateOfOrdinal(n)]

\* date.strftime('%Y-%m-%d'): date object to string.
FromOrdinal(n) == Calendar[n]

\* s[:4] of a date string, as a number.
YearOf(s) == s[1]

\* The first day the model's clock shows.
StartDate == <<2021, 2, 20>>

-----------------------------------------------------------------------------
(* Upstream responses.  make_request returns whatever JSON the API sent;   *)
(* a transport failure raises out of requests.get.                         *)

NoErr == "none"

\* A file that does not exist, and one that holds text.
NoFile == [exists |-> FALSE]

File(text) == [exists |-> TRUE, text |-> text]

\* Rates the FX endpoint may report, in thousandths (1005 is 1.005).
RateVals == {1005, 1015, 6964}

Currencies == {"CNY", "AUD"}

FxDates == {<<2020, 1, 1>>, <<2020, 3, 1>>}

\* response["rates"][currency]: the rate, a payload without the field, or
\* no response at all.
FxResponses ==
    {[kind |-> "ok", rate |-> r] : r \in RateVals}
        \cup {[kind |-> "nokey"], [kind |-> "transport"]}

-----------------------------------------------------------------------------
(* Exchange rates.                                                         *)

\* df.Date.isin([date]).any() on the table with Date parsed to datetime.
RateCached(tbl, date) ==
    \E i \in 1 .. Len(tbl) : ToOrdinal(tbl[i].Date) = ToOrdinal(date)

\* A mutant of insert_rate: a row of the same date is replaced, not refused.
insert_rate_replace(tbl, date, rate) ==
    [tbl |-> Append(SelectSeq(tbl, LAMBDA r : r.Date # date),
                    [Date |-> date, Rates |-> rate]),
     err |-> NoErr]

\* INSERT INTO "Rates<CCY>": Date is the primary key.
insert_rate(tbl, date, rate) ==
    IF \E i \in 1 .. Len(tbl) : tbl[i].Date = date
    THEN [tbl |-> tbl, err |-> "IntegrityError"]
    ELSE [tbl |-> Append(tbl, [Date |-> date, Rates |-> rate]), err |-> NoErr]

\* df.query('Date == "<date>"')["Rates"].iloc[-1]
RateOf(tbl, date) ==
    LET hits == SelectSeq(tbl, LAMBDA r : ToOrdinal(r.Date) = ToOrdinal(date))
    IN  hits[Len(hits)].Rates

\* A mutant of get_rates_with_cache: the presence test is dropped, every call
\* fetches.
get_rates_with_cache_refetch(tbl, currency, date, resp) ==
    IF resp.kind = "ok"
    THEN LET kept == SelectSeq(tbl, LAMBDA r : r.Date # date)
             t == Append(kept, [Date |-> date, Rates |-> resp.rate])
         IN  [tbl |-> t, nreq |-> 1, err |-> NoErr, ret |-> RateOf(t, date)]
    ELSE [tbl |-> tbl, nreq |-> 1, err |-> "KeyError", ret |-> "raised"]

\* A mutant of get_rates_with_cache: a fetched rate replaces the rows the
\* table held.
get_rates_with_cache_clear(tbl, currency, date, resp) ==
    IF RateCached(tbl, date)
    THEN [tbl |-> tbl, nreq |-> 0, err |-> NoErr, ret |-> RateOf(tbl, date)]
    ELSE IF resp.kind = "transport"
    THEN [tbl |-> tbl, nreq |-> 1, err |-> "ConnectionError", ret |-> "raised"]
    ELSE IF resp.kind = "nokey"
    THEN [tbl |-> tbl, nreq |-> 1, err |-> "KeyError", ret |-> "raised"]
    ELSE [tbl |-> <<[Date |-> date, Rates |-> resp.rate]>>, nreq |-> 1,
          err |-> NoErr, ret |-> resp.rate]

\* get_rates_with_cache on table tbl of the currency; resp is what the
\* upstream would answer if asked.
get_rates_with_cache(tbl, currency, date, resp) ==
    IF RateCached(tbl, date)
    THEN [tbl |-> tbl, nreq |-> 0, err |-> NoErr, ret |-> RateOf(tbl, date)]
    ELSE IF resp.kind = "transport"
    THEN [tbl |-> tbl, nreq |-> 1, err |-> "ConnectionError", ret |-> "raised"]
    ELSE IF resp.kind = "nokey"
    THEN [tbl |-> tbl, nreq |-> 1, err |-> "KeyError", ret |-> "raised"]
    ELSE LET ins == insert_rate(tbl, date, resp.rate)
         IN  IF ins.err # NoErr
             THEN [tbl |-> tbl, nreq |-> 1, err |-> ins.err, ret |-> "raised"]
             ELSE [tbl |-> ins.tbl, nreq |-> 1, err |-> NoErr,
                   ret |-> RateOf(ins.tbl, date)]

\* What prev keeps of a call: all of this for an exchange-rate lookup, for
\* any other call only that it was one.
Brief(c) ==
    IF c.op = "get_rates_with_cache"
    THEN [op |-> c.op, key |-> c.key, nreq |-> c.nreq, err |-> c.err,
          ret |-> c.ret]
    ELSE [op |-> "other", key |-> <<>>, nreq |-> 0, err |-> NoErr,
          ret |-> "none"]

NoCall == [op |-> "none", key |-> <<>>, nreq |-> 0, err |-> NoErr,
           ret |-> "none", pre |-> <<>>]

\* A caller runs get_rates_with_cache(conn, currency, date).
CallGetRates ==
    \E c \in Currencies, d \in FxDates, resp \in FxResponses :
        LET r == get_rates_with_cache(rates[c], c, d, resp)
        IN  /\ rates' = [rates EXCEPT ![c] = r.tbl]
            /\ last' = [op |-> "get_rates_with_cache", key |-> <<c, d>>,
                        nreq |-> r.nreq, err |-> r.err, ret |-> r.ret,
                        pre |-> rates[c]]
            /\ prev' = Brief(last)
            /\ UNCHANGED inflight
            /\ UNCHANGED <<today, clock, etfs, companies, eps, history, news,
                          images, upload, csv, cum>>

-----------------------------------------------------------------------------
(* The clock.                                                              *)

\* Midnight passes: date.today() shows the next day.  h bounds the clock.
Tick(h) ==
    /\ today < ToOrdinal(StartDate) + h
    /\ today' = today + 1
    /\ clock' = 0
    /\ last' = [op |-> "tick", key |-> <<>>, nreq |-> 0, err |-> NoErr,
                ret |-> "none", pre |-> <<>>]
    /\ prev' = Brief(last)
    /\ UNCHANGED inflight
    /\ UNCHANGED <<rates, etfs, companies, eps, history, news, images,
                   upload, csv, cum>>


-----------------------------------------------------------------------------
(* ETFs.                                                                   *)

\* d[k] raises KeyError: the JSON object d has no field k.
Lacks(d, k) == k \notin DOMAIN d

\* Entries the ETF list endpoint may send; the last one lacks "name".
EtfEntries ==
    { [symbol |-> "SPY", name |-> "SPDR S&P 500", exchange |-> "NYSE Arca"],
      [symbol |-> "QQQ", name |-> "Invesco QQQ", exchange |-> "NASDAQ"],
      [symbol |-> "QQQ", exchange |-> "NASDAQ"] }

\* The longest ETF list the upstream sends.
MaxEtfList == 2

RECURSIVE SeqsUpTo(_, _)
\* All sequences over S of length at most n.
SeqsUpTo(S, n) ==
    IF n = 0 THEN {<<>>}
    ELSE LET shorter == SeqsUpTo(S, n - 1)
         IN  shorter \cup {Append(q, x) : q \in shorter, x \in S}

\* What the ETF list request may come back with: a list, an error object
\* (a JSON mapping), or no response.
EtfResponses ==
    {[kind |-> "list", list |-> l] : l \in SeqsUpTo(EtfEntries, MaxEtfList)}
        \cup {[kind |-> "errdict"], [kind |-> "transport"]}

\* Days after which the ETF table is refilled.
EtfMaxAge == 30

\* INSERT INTO "ETFs": Symbol is the primary key, LastUpdate is today.
insert_etf(tbl, symbol, name, exchange, day) ==
    IF \E i \in 1 .. Len(tbl) : tbl[i].Symbol = symbol
    THEN [tbl |-> tbl, err |-> "IntegrityError"]
    ELSE [tbl |-> Append(tbl, [Symbol |-> symbol, Name |-> name,
                               Exchange |-> exchange,
                               LastUpdate |-> FromOrdinal(day)]),
          err |-> NoErr]

RECURSIVE InsertEtfs(_, _, _)
\* for etf in etfs: insert_etf(conn, etf["symbol"], etf["name"], etf["exchange"])
\* Each insert commits; the first error ends the loop and propagates.
InsertEtfs(tbl, list, day) ==
    IF list = <<>> THEN [tbl |-> tbl, err |-> NoErr]
    ELSE LET e == Head(list)
         IN  IF Lacks(e, "symbol") \/ Lacks(e, "name") \/ Lacks(e, "exchange")
             THEN [tbl |-> tbl, err |-> "KeyError"]
             ELSE LET ins == insert_etf(tbl, e.symbol, e.name, e.exchange, day)
                  IN  IF ins.err # NoErr THEN ins
                      ELSE InsertEtfs(ins.tbl, Tail(list), day)

\* A mutant of fill_table_for_ETF: the inserts of a refill that fails are
\* rolled back.
fill_table_for_ETF_rollback(tbl, resp, day) ==
    IF resp.kind = "transport"
    THEN [tbl |-> tbl, nreq |-> 1, err |-> "ConnectionError"]
    ELSE IF resp.kind = "errdict"
    THEN [tbl |-> tbl, nreq |-> 1, err |-> "TypeError"]
    ELSE LET r == InsertEtfs(tbl, resp.list, day)
         IN  [tbl |-> IF r.err = NoErr THEN r.tbl ELSE tbl, nreq |-> 1,
              err |-> r.err]

\* fill_table_for_ETF: one request, then one insert per entry.
fill_table_for_ETF(tbl, resp, day) ==
    IF resp.kind = "transport"
    THEN [tbl |-> tbl, nreq |-> 1, err |-> "ConnectionError"]
    ELSE IF resp.kind = "errdict"
    THEN [tbl |-> tbl, nreq |-> 1, err |-> "TypeError"]
    ELSE LET r == InsertEtfs(tbl, resp.list, day)
         IN  [tbl |-> r.tbl, nreq |-> 1, err |-> r.err]

\* DELETE FROM ETFs
delete_table_for_ETF(tbl) == <<>>

\* (today - latest).days, latest parsed from the first row's LastUpdate.
EtfAge(tbl, day) == day - ToOrdinal(tbl[1].LastUpdate)

\* A mutant of get_all_ETFs_with_cache: the staleness test reads > for >=.
get_all_ETFs_with_cache_gt(tbl, resp, day) ==
    IF Len(tbl) = 0 THEN fill_table_for_ETF(tbl, resp, day)
    ELSE IF EtfAge(tbl, day) > EtfMaxAge
    THEN fill_table_for_ETF(delete_table_for_ETF(tbl), resp, day)
    ELSE [tbl |-> tbl, nreq |-> 0, err |-> NoErr]

\* A mutant of get_all_ETFs_with_cache: a non-empty table is refilled
\* whatever its age.
get_all_ETFs_with_cache_always(tbl, resp, day) ==
    fill_table_for_ETF(delete_table_for_ETF(tbl), resp, day)

\* get_all_ETFs_with_cache: the table after the call (which is what the call
\* returns), the requests issued, the error raised.
get_all_ETFs_with_cache(tbl, resp, day) ==
    IF Len(tbl) = 0 THEN fill_table_for_ETF(tbl, resp, day)
    ELSE IF EtfAge(tbl, day) >= EtfMaxAge
    THEN fill_table_for_ETF(delete_table_for_ETF(tbl), resp, day)
    ELSE [tbl |-> tbl, nreq |-> 0, err |-> NoErr]

\* No request for the ETF list has been made.
NoFill == [day |-> 0, err |-> NoErr, rows |-> 0]

\* The most recent request for the ETF list: its day, the error that ended
\* it, the rows it left in the table.
LastFill == IF "fill" \in DOMAIN last THEN last.fill ELSE NoFill

\* A caller runs get_all_ETFs_with_cache(conn).
CallGetAllETFs ==
    \E resp \in EtfResponses :
        LET r == get_all_ETFs_with_cache(etfs, resp, today)
        IN  /\ etfs' = r.tbl
            /\ last' = [op |-> "get_all_ETFs_with_cache", key |-> <<>>,
                        nreq |-> r.nreq, err |-> r.err, ret |-> "table",
                        pre |-> etfs, resp |-> resp,
                        fill |-> IF r.nreq = 0 THEN LastFill
                                 ELSE [day |-> today, err |-> r.err,
                                       rows |-> Len(r.tbl)]]
            /\ prev' = Brief(last)
            /\ UNCHANGED inflight
            /\ UNCHANGED <<today, clock, rates, companies, eps, history,
                          news, images, upload, csv, cum>>

\* Midnight passes, the most recent request for the ETF list remembered.
\* h bounds the clock.
Midnight(h) ==
    /\ today < ToOrdinal(StartDate) + h
    /\ today' = today + 1
    /\ clock' = 0
    /\ last' = [op |-> "tick", key |-> <<>>, nreq |-> 0, err |-> NoErr,
                ret |-> "none", pre |-> <<>>, fill |-> LastFill]
    /\ prev' = Brief(last)
    /\ UNCHANGED <<rates, etfs, companies, eps, history, news, images,
                   upload, csv, cum, inflight>>

-----------------------------------------------------------------------------
(* Connections.  The module's conn runs PRAGMA foreign_keys = 1; a route   *)
(* handler opens its own with sqlite3.connect(DB) and runs no PRAGMA, and  *)
(* sqlite leaves foreign keys off on a new connection.                     *)

ModuleConn == [foreign_keys |-> TRUE]

RouteConn == [foreign_keys |-> FALSE]

IsIntegrityError(e) == e \in {"IntegrityError: UNIQUE", "IntegrityError: FOREIGN KEY"}

HasSymbol(tbl, symbol) == \E i \in 1 .. Len(tbl) : tbl[i].Symbol = symbol

\* df.query("Symbol == '<symbol>'")
RowsOf(tbl, symbol) == SelectSeq(tbl, LAMBDA r : r.Symbol = symbol)

-----------------------------------------------------------------------------
(* Companies.                                                              *)

CompanySymbols == {"AAPL", "CVS"}

\* What the company search may come back with: a list whose first entry
\* has both fields, one whose first entry lacks a field, an empty list, an
\* error object, or no response.
CompanyResponses ==
    { [kind |-> "list", name |-> "Apple Inc.", exchangeShortName |-> "NASDAQ"],
      [kind |-> "list", name |-> "CVS Health"],
      [kind |-> "empty"], [kind |-> "errdict"], [kind |-> "transport"] }

\* INSERT INTO "Companies": Symbol is the primary key.
insert_company(tbl, symbol, name, exchange) ==
    IF HasSymbol(tbl, symbol)
    THEN [tbl |-> tbl, err |-> "IntegrityError: UNIQUE"]
    ELSE [tbl |-> Append(tbl, [Symbol |-> symbol, Name |-> name,
                               Exchange |-> exchange]),
          err |-> NoErr]

\* A mutant of fill_record_for_company: a request that gets no response is
\* made a second time.
fill_record_for_company_retry(tbl, symbol, resp) ==
    IF resp.kind = "transport"
    THEN [tbl |-> tbl, nreq |-> 2, err |-> "ConnectionError"]
    ELSE IF resp.kind = "empty"
    THEN [tbl |-> tbl, nreq |-> 1, err |-> "IndexError"]
    ELSE IF resp.kind = "errdict"
    THEN [tbl |-> tbl, nreq |-> 1, err |-> "KeyError"]
    ELSE IF Lacks(resp, "name") \/ Lacks(resp, "exchangeShortName")
    THEN [tbl |-> tbl, nreq |-> 1, err |-> "KeyError"]
    ELSE [tbl |-> insert_company(tbl, symbol, resp.name,
                                 resp.exchangeShortName).tbl,
          nreq |-> 1,
          err |-> insert_company(tbl, symbol, resp.name,
                                 resp.exchangeShortName).err]

\* fill_record_for_company: one request, then info[0]["name"] and
\* info[0]["exchangeShortName"]; nothing here is caught.
fill_record_for_company(tbl, symbol, resp) ==
    IF resp.kind = "transport"
    THEN [tbl |-> tbl, nreq |-> 1, err |-> "ConnectionError"]
    ELSE IF resp.kind = "empty"
    THEN [tbl |-> tbl, nreq |-> 1, err |-> "IndexError"]
    ELSE IF resp.kind = "errdict"
    THEN [tbl |-> tbl, nreq |-> 1, err |-> "KeyError"]
    ELSE IF Lacks(resp, "name") \/ Lacks(resp, "exchangeShortName")
    THEN [tbl |-> tbl, nreq |-> 1, err |-> "KeyError"]
    ELSE LET ins == insert_company(tbl, symbol, resp.name,
                                   resp.exchangeShortName)
         IN  [tbl |-> ins.tbl, nreq |-> 1, err |-> ins.err]

\* A mutant of get_company_info_with_cache: the lookup is made every time.
get_company_info_with_cache_refetch(tbl, symbol, resp) ==
    fill_record_for_company(tbl, symbol, resp)

\* get_company_info_with_cache: a row once present is never fetched again.
get_company_info_with_cache(tbl, symbol, resp) ==
    IF HasSymbol(tbl, symbol)
    THEN [tbl |-> tbl, nreq |-> 0, err |-> NoErr]
    ELSE fill_record_for_company(tbl, symbol, resp)

\* A caller runs get_company_info_with_cache(conn, symbol), symbol in S.
CallGetCompanyInfo(S, RC) ==
    \E sym \in S, resp \in RC :
        LET r == get_company_info_with_cache(companies, sym, resp)
        IN  /\ companies' = r.tbl
            /\ last' = [op |-> "get_company_info_with_cache",
                        key |-> <<sym>>, nreq |-> r.nreq, err |-> r.err,
                        ret |-> IF r.err = NoErr THEN RowsOf(r.tbl, sym)
                                ELSE "raised",
                        pre |-> companies, resp |-> resp]
            /\ prev' = Brief(last)
            /\ UNCHANGED inflight
            /\ UNCHANGED <<today, clock, rates, etfs, eps, history, news,
                          images, upload, csv, cum>>

-----------------------------------------------------------------------------
(* EPS.                                                                    *)

Quarter(date, reported, estimated) ==
    [fiscalDateEnding |-> date, reportedEPS |-> reported,
     estimatedEPS |-> estimated]

\* eps["quarterlyEarnings"] as the earnings endpoint may send it, newest
\* quarter first, amounts in cents: five quarters, the same without the
\* oldest two, and four with a field missing in the second.
EarningsFive ==
    << Quarter(<<2020, 12, 31>>, 168, 141), Quarter(<<2020, 9, 30>>, 73, 70),
       Quarter(<<2020, 6, 30>>, 65, 51), Quarter(<<2020, 3, 31>>, 64, 56),
       Quarter(<<2019, 12, 31>>, 125, 114) >>

EarningsThree == SubSeq(EarningsFive, 1, 3)

EarningsBad ==
    << Quarter(<<2020, 12, 31>>, 168, 141), [fiscalDateEnding |-> <<2020, 9, 30>>, reportedEPS |-> 73],
       Quarter(<<2020, 6, 30>>, 65, 51), Quarter(<<2020, 3, 31>>, 64, 56) >>

\* What the earnings request may come back with: the earnings, a note
\* without "quarterlyEarnings" (the call limit), or no response.
EpsResponses ==
    {[kind |-> "earnings", quarterlyEarnings |-> q] :
         q \in {EarningsFive, EarningsThree, EarningsBad}}
        \cup {[kind |-> "note"], [kind |-> "transport"]}

\* Days after which an EPS row is fetched again.
EpsMaxAge == 10

\* A mutant of insert_eps: the foreign key is not enforced.
insert_eps_nofk(tbl, comp, conn, symbol, q, day) ==
    IF HasSymbol(tbl, symbol)
    THEN [tbl |-> tbl, err |-> "IntegrityError: UNIQUE"]
    ELSE [tbl |-> Append(tbl, [Symbol |-> symbol, Q |-> q,
                               LastUpdate |-> FromOrdinal(day)]),
          err |-> NoErr]

\* INSERT INTO "EPS": Symbol is the primary key and references
\* Companies(Symbol), which the connection enforces if foreign keys are on.
insert_eps(tbl, comp, conn, symbol, q, day) ==
    IF HasSymbol(tbl, symbol)
    THEN [tbl |-> tbl, err |-> "IntegrityError: UNIQUE"]
    ELSE IF conn.foreign_keys /\ ~HasSymbol(comp, symbol)
    THEN [tbl |-> tbl, err |-> "IntegrityError: FOREIGN KEY"]
    ELSE [tbl |-> Append(tbl, [Symbol |-> symbol, Q |-> q,
                               LastUpdate |-> FromOrdinal(day)]),
          err |-> NoErr]

RECURSIVE QuarterArgsError(_, _)
\* The error that evaluating eps["quarterlyEarnings"][i-1][...] for the
\* quarters i..4 raises, in the order the call's arguments are evaluated.
QuarterArgsError(q, i) ==
    IF i > 4 THEN NoErr
    ELSE IF Len(q) < i THEN "IndexError"
    ELSE IF \/ Lacks(q[i], "fiscalDateEnding") \/ Lacks(q[i], "reportedEPS")
            \/ Lacks(q[i], "estimatedEPS")
    THEN "KeyError"
    ELSE QuarterArgsError(q, i + 1)

\* fill_record_for_eps: one request, the first four quarters inserted as one
\* row; only KeyError is caught (and printed).
fill_record_for_eps(tbl, comp, conn, symbol, resp, day) ==
    IF resp.kind = "transport"
    THEN [tbl |-> tbl, nreq |-> 1, err |-> "ConnectionError", caught |-> NoErr]
    ELSE IF resp.kind = "note"
    THEN [tbl |-> tbl, nreq |-> 1, err |-> NoErr, caught |-> "KeyError"]
    ELSE LET q == resp.quarterlyEarnings
             e == QuarterArgsError(q, 1)
         IN  IF e = "KeyError"
             THEN [tbl |-> tbl, nreq |-> 1, err |-> NoErr, caught |-> e]
             ELSE IF e # NoErr
             THEN [tbl |-> tbl, nreq |-> 1, err |-> e, caught |-> NoErr]
             ELSE LET ins == insert_eps(tbl, comp, conn, symbol,
                                        SubSeq(q, 1, 4), day)
                  IN  [tbl |-> ins.tbl, nreq |-> 1, err |-> ins.err,
                       caught |-> NoErr]

\* DELETE FROM EPS WHERE Symbol='<symbol>'
delete_record_for_eps(tbl, symbol) == SelectSeq(tbl, LAMBDA r : r.Symbol # symbol)

\* (today - update).days for the symbol's row.
EpsAge(tbl, symbol, day) == day - ToOrdinal(RowsOf(tbl, symbol)[1].LastUpdate)

NoFetch(tbl) == [tbl |-> tbl, nreq |-> 0, err |-> NoErr, caught |-> NoErr]

\* A mutant of get_eps_with_cache: the staleness test reads > for >=.
get_eps_with_cache_gt(tbl, comp, conn, symbol, resp, day) ==
    IF ~HasSymbol(tbl, symbol)
    THEN fill_record_for_eps(tbl, comp, conn, symbol, resp, day)
    ELSE IF EpsAge(tbl, symbol, day) > EpsMaxAge
    THEN fill_record_for_eps(delete_record_for_eps(tbl, symbol), comp, conn,
                             symbol, resp, day)
    ELSE NoFetch(tbl)

\* A mutant of get_eps_with_cache: the old row is deleted only once the new
\* one is there to take its place.
get_eps_with_cache_keep(tbl, comp, conn, symbol, resp, day) ==
    IF ~HasSymbol(tbl, symbol)
    THEN fill_record_for_eps(tbl, comp, conn, symbol, resp, day)
    ELSE IF EpsAge(tbl, symbol, day) >= EpsMaxAge
    THEN LET r == fill_record_for_eps(delete_record_for_eps(tbl, symbol),
                                      comp, conn, symbol, resp, day)
         IN  IF HasSymbol(r.tbl, symbol) THEN r
             ELSE [tbl |-> tbl, nreq |-> r.nreq, err |-> r.err,
                   caught |-> r.caught]
    ELSE NoFetch(tbl)

\* get_eps_with_cache: the EPS table after the call, the requests issued, the
\* error raised, the error caught and printed.
get_eps_with_cache(tbl, comp, conn, symbol, resp, day) ==
    IF ~HasSymbol(tbl, symbol)
    THEN fill_record_for_eps(tbl, comp, conn, symbol, resp, day)
    ELSE IF EpsAge(tbl, symbol, day) >= EpsMaxAge
    THEN fill_record_for_eps(delete_record_for_eps(tbl, symbol), comp, conn,
                             symbol, resp, day)
    ELSE NoFetch(tbl)

\* A caller runs get_eps_with_cache(conn, symbol) on the module's conn,
\* symbol in S.
CallGetEps(S, RP) ==
    \E sym \in S, resp \in RP :
        LET r == get_eps_with_cache(eps, companies, ModuleConn, sym, resp,
                                    today)
        IN  /\ eps' = r.tbl
            /\ last' = [op |-> "get_eps_with_cache", key |-> <<sym>>,
                        nreq |-> r.nreq, err |-> r.err,
                        ret |-> IF r.err = NoErr THEN RowsOf(r.tbl, sym)
                                ELSE "raised",
                        pre |-> eps, resp |-> resp, caught |-> r.caught]
            /\ prev' = Brief(last)
            /\ UNCHANGED inflight
            /\ UNCHANGED <<today, clock, rates, etfs, companies, history,
                          news, images, upload, csv, cum>>

-----------------------------------------------------------------------------
(* Price history.                                                          *)

RECURSIVE GCD(_, _)
GCD(a, b) == IF b = 0 THEN a ELSE GCD(b, a % b)

\* A mutant of Ratio: the quotient taken the other way round.
Ratio_inverted(adjusted, close) ==
    [num |-> close \div GCD(adjusted, close),
     den |-> adjusted \div GCD(adjusted, close)]

\* float(adjusted)/float(close), kept exact: the fraction in lowest terms.
Ratio(adjusted, close) ==
    LET g == GCD(adjusted, close)
    IN  [num |-> adjusted \div g, den |-> close \div g]

\* One day's bar as the time-series endpoint sends it ("1. open", "2. high",
\* "3. low", "4. close", "5. adjusted close", "6. volume"), prices in cents.
Bar(o, h, l, c, a, v) ==
    [open |-> o, high |-> h, low |-> l, close |-> c, adjusted |-> a,
     volume |-> v]

\* response["Time Series (Daily)"]: date -> bar, newest first, over three
\* years.
SeriesFull ==
    << <<<<2021, 1, 4>>, Bar(13300, 13400, 12600, 12900, 12900, 143)>>,
       <<<<2020, 12, 31>>, Bar(13400, 13500, 13100, 13200, 13200, 99)>>,
       <<<<2020, 1, 2>>, Bar(9800, 10100, 9700, 10000, 9500, 135)>>,
       <<<<2019, 12, 31>>, Bar(28900, 29300, 28900, 29300, 7200, 100)>> >>

\* The same with "5. adjusted close" missing from the bar of 2020-01-02.
SeriesBad ==
    [SeriesFull EXCEPT ![3] =
        <<<<2020, 1, 2>>, [open |-> 9800, high |-> 10100, low |-> 9700,
                           close |-> 10000, volume |-> 135]>>]

\* What the time-series request may come back with: the series, a note
\* without "Time Series (Daily)" (the call limit), or no response.
HistoryResponses ==
    {[kind |-> "series", series |-> x] : x \in {SeriesFull, SeriesBad}}
        \cup {[kind |-> "note"], [kind |-> "transport"]}

\* The years a caller asks price history for.
HistYears == {2019, 2020}

\* A mutant of insert_history: (Symbol, Date) is a key of the table.
insert_history_unique(hist, conn, symbol, date, bar) ==
    IF \E i \in 1 .. Len(hist[YearOf(date)]) :
           /\ hist[YearOf(date)][i].Symbol = symbol
           /\ hist[YearOf(date)][i].Date = date
    THEN [hist |-> hist, err |-> "IntegrityError: UNIQUE"]
    ELSE [hist |-> [hist EXCEPT ![YearOf(date)] =
                       Append(@, [Date |-> date, Symbol |-> symbol,
                                  Open |-> bar.open, High |-> bar.high,
                                  Low |-> bar.low, Close |-> bar.close,
                                  Volume |-> bar.volume,
                                  AdjustedClose |-> bar.adjusted,
                                  Ratio |-> Ratio(bar.adjusted, bar.close)])],
          err |-> NoErr]

\* INSERT INTO "History<date[:4]>": the table app.py creates has no key and
\* no foreign key, so the insert succeeds on any connection.
insert_history(hist, conn, symbol, date, bar) ==
    IF bar.close = 0 THEN [hist |-> hist, err |-> "ZeroDivisionError"]
    ELSE LET y == YearOf(date)
             row == [Date |-> date, Symbol |-> symbol, Open |-> bar.open,
                     High |-> bar.high, Low |-> bar.low, Close |-> bar.close,
                     Volume |-> bar.volume, AdjustedClose |-> bar.adjusted,
                     Ratio |-> Ratio(bar.adjusted, bar.close)]
         IN  [hist |-> [hist EXCEPT ![y] = Append(@, row)], err |-> NoErr]

RECURSIVE InsertSeries_unfiltered(_, _, _, _, _)
\* A mutant of InsertSeries: the entries are not filtered by the year.
InsertSeries_unfiltered(hist, conn, symbol, year, series) ==
    IF series = <<>> THEN [hist |-> hist, err |-> NoErr]
    ELSE LET k == Head(series)[1]
             v == Head(series)[2]
         IN  IF \E f \in {"open", "high", "low", "close", "volume",
                          "adjusted"} : Lacks(v, f)
             THEN [hist |-> hist, err |-> "KeyError"]
             ELSE LET ins == insert_history(hist, conn, symbol, k, v)
                  IN  IF ins.err # NoErr THEN ins
                      ELSE InsertSeries_unfiltered(ins.hist, conn, symbol,
                                                   year, Tail(series))

RECURSIVE InsertSeries(_, _, _, _, _)
\* for k, v in response["Time Series (Daily)"].items():
\*     if k.startswith(year): insert_history(...)
\* Each insert commits; the first error ends the loop.
InsertSeries(hist, conn, symbol, year, series) ==
    IF series = <<>> THEN [hist |-> hist, err |-> NoErr]
    ELSE LET k == Head(series)[1]
             v == Head(series)[2]
         IN  IF YearOf(k) # year
             THEN InsertSeries(hist, conn, symbol, year, Tail(series))
             ELSE IF \E f \in {"open", "high", "low", "close", "volume",
                               "adjusted"} : Lacks(v, f)
             THEN [hist |-> hist, err |-> "KeyError"]
             ELSE LET ins == insert_history(hist, conn, symbol, k, v)
                  IN  IF ins.err # NoErr THEN ins
                      ELSE InsertSeries(ins.hist, conn, symbol, year,
                                        Tail(series))

\* A mutant of get_history_with_cache: the request is made whether or not
\* the table holds rows of the symbol.
get_history_with_cache_refetch(hist, conn, symbol, year, resp) ==
    IF resp.kind = "transport"
    THEN [hist |-> hist, nreq |-> 1, err |-> "ConnectionError",
          caught |-> NoErr]
    ELSE IF resp.kind = "note"
    THEN [hist |-> hist, nreq |-> 1, err |-> NoErr, caught |-> "KeyError"]
    ELSE LET r == InsertSeries(hist, conn, symbol, year, resp.series)
         IN  IF r.err = "KeyError"
             THEN [hist |-> r.hist, nreq |-> 1, err |-> NoErr,
                   caught |-> "KeyError"]
             ELSE [hist |-> r.hist, nreq |-> 1, err |-> r.err,
                   caught |-> NoErr]

\* A mutant of get_history_with_cache: the KeyError of a response without
\* "Time Series (Daily)" is not caught.
get_history_with_cache_uncaught(hist, conn, symbol, year, resp) ==
    IF HasSymbol(hist[year], symbol)
    THEN [hist |-> hist, nreq |-> 0, err |-> NoErr, caught |-> NoErr]
    ELSE IF resp.kind = "transport"
    THEN [hist |-> hist, nreq |-> 1, err |-> "ConnectionError",
          caught |-> NoErr]
    ELSE IF resp.kind = "note"
    THEN [hist |-> hist, nreq |-> 1, err |-> "KeyError", caught |-> NoErr]
    ELSE LET r == InsertSeries(hist, conn, symbol, year, resp.series)
         IN  IF r.err = "KeyError"
             THEN [hist |-> r.hist, nreq |-> 1, err |-> NoErr,
                   caught |-> "KeyError"]
             ELSE [hist |-> r.hist, nreq |-> 1, err |-> r.err,
                   caught |-> NoErr]

\* A mutant of get_history_with_cache: the rows of a loop that stopped on a
\* KeyError are rolled back.
get_history_with_cache_rollback(hist, conn, symbol, year, resp) ==
    IF HasSymbol(hist[year], symbol)
    THEN [hist |-> hist, nreq |-> 0, err |-> NoErr, caught |-> NoErr]
    ELSE IF resp.kind = "transport"
    THEN [hist |-> hist, nreq |-> 1, err |-> "ConnectionError",
          caught |-> NoErr]
    ELSE IF resp.kind = "note"
    THEN [hist |-> hist, nreq |-> 1, err |-> NoErr, caught |-> "KeyError"]
    ELSE LET r == InsertSeries(hist, conn, symbol, year, resp.series)
         IN  IF r.err = "KeyError"
             THEN [hist |-> hist, nreq |-> 1, err |-> NoErr,
                   caught |-> "KeyError"]
             ELSE [hist |-> r.hist, nreq |-> 1, err |-> r.err,
                   caught |-> NoErr]

\* get_history_with_cache: all History tables after the call, the requests
\* issued, the error raised, the error caught and printed.  KeyError alone is
\* caught; rows inserted before it stay.
get_history_with_cache(hist, conn, symbol, year, resp) ==
    IF HasSymbol(hist[year], symbol)
    THEN [hist |-> hist, nreq |-> 0, err |-> NoErr, caught |-> NoErr]
    ELSE IF resp.kind = "transport"
    THEN [hist |-> hist, nreq |-> 1, err |-> "ConnectionError",
          caught |-> NoErr]
    ELSE IF resp.kind = "note"
    THEN [hist |-> hist, nreq |-> 1, err |-> NoErr, caught |-> "KeyError"]
    ELSE LET r == InsertSeries(hist, conn, symbol, year, resp.series)
         IN  IF r.err = "KeyError"
             THEN [hist |-> r.hist, nreq |-> 1, err |-> NoErr,
                   caught |-> "KeyError"]
             ELSE [hist |-> r.hist, nreq |-> 1, err |-> r.err,
                   caught |-> NoErr]

\* A caller runs get_history_with_cache(conn, symbol, year) on the module's
\* conn, symbol in S and year in Y.
CallGetHistory(S, Y, RH) ==
    \E sym \in S, y \in Y, resp \in RH :
        LET r == get_history_with_cache(history, ModuleConn, sym, y, resp)
        IN  /\ history' = r.hist
            /\ last' = [op |-> "get_history_with_cache", key |-> <<sym, y>>,
                        nreq |-> r.nreq, err |-> r.err,
                        ret |-> IF r.err = NoErr THEN RowsOf(r.hist[y], sym)
                                ELSE "raised",
                        pre |-> history, resp |-> resp, caught |-> r.caught]
            /\ prev' = Brief(last)
            /\ UNCHANGED inflight
            /\ UNCHANGED <<today, clock, rates, etfs, companies, eps, news,
                           images, upload, csv, cum>>

-----------------------------------------------------------------------------
(* News and the JSON cache file.                                           *)

\* The empty mapping, {}.
EmptyDict == [k \in {} |-> {}]

\* json.load: the mapping a JSON text (a set of "key": value members) holds.
json_load(text) ==
    [k \in {m[1] : m \in text} |-> (CHOOSE m \in text : m[1] = k)[2]]

\* json.dump: the members of a mapping.
json_dump(d) == {<<k, d[k]>> : k \in DOMAIN d}

\* A mutant of open_cache: the file is never read.
open_cache_fresh(file) == EmptyDict

\* open_cache: the parsed file, {} when there is none.
open_cache(file) ==
    IF ~file.exists THEN EmptyDict ELSE json_load(file.text)

\* save_cache: the file overwritten.
save_cache(d) == File(json_dump(d))

\* A mutant of DictPut: the mapping is started afresh with the one key.
DictPut_only(d, k, v) == [x \in {k} |-> v]

\* d[k] = v on a mapping.
DictPut(d, k, v) == [x \in DOMAIN d \cup {k} |-> IF x = k THEN v ELSE d[x]]

\* What the news request may come back with: articles, an error payload
\* (JSON all the same), or no response.
NewsResponses ==
    { [kind |-> "json", payload |-> "articles"],
      [kind |-> "json", payload |-> "error"],
      [kind |-> "transport"] }

\* Days after which a news entry is fetched again.
NewsMaxAge == 1

\* A mutant of get_news: a payload that reports an error is refused.
get_news_checked(symbol, resp, day) ==
    IF resp.kind = "transport"
    THEN [err |-> "ConnectionError", nreq |-> 1, entry |-> <<>>]
    ELSE IF resp.payload = "error"
    THEN [err |-> "ValueError", nreq |-> 1, entry |-> <<>>]
    ELSE [err |-> NoErr, nreq |-> 1,
          entry |-> [Fetched |-> FromOrdinal(day), News |-> resp.payload]]

\* get_news: one request, the payload wrapped with today's date.
get_news(symbol, resp, day) ==
    IF resp.kind = "transport"
    THEN [err |-> "ConnectionError", nreq |-> 1, entry |-> <<>>]
    ELSE [err |-> NoErr, nreq |-> 1,
          entry |-> [Fetched |-> FromOrdinal(day), News |-> resp.payload]]

\* A mutant of get_news_with_cache: an entry is kept for two days.
get_news_with_cache_2days(file, symbol, resp, day) ==
    IF symbol \in DOMAIN open_cache(file)
           /\ day - ToOrdinal(open_cache(file)[symbol].Fetched) < 2
    THEN [file |-> file, nreq |-> 0, err |-> NoErr,
          ret |-> open_cache(file)[symbol]]
    ELSE IF get_news(symbol, resp, day).err # NoErr
    THEN [file |-> file, nreq |-> 1,
          err |-> get_news(symbol, resp, day).err, ret |-> <<>>]
    ELSE [file |-> save_cache(DictPut(open_cache(file), symbol,
                                      get_news(symbol, resp, day).entry)),
          nreq |-> 1, err |-> NoErr,
          ret |-> get_news(symbol, resp, day).entry]

\* get_news_with_cache: the cache file after the call, the entry returned.
get_news_with_cache(file, symbol, resp, day) ==
    LET d == open_cache(file)
        g == get_news(symbol, resp, day)
        fetched ==
            IF g.err # NoErr
            THEN [file |-> file, nreq |-> 1, err |-> g.err, ret |-> <<>>]
            ELSE [file |-> save_cache(DictPut(d, symbol, g.entry)),
                  nreq |-> 1, err |-> NoErr, ret |-> g.entry]
    IN  IF symbol \in DOMAIN d
        THEN IF day - ToOrdinal(d[symbol].Fetched) >= NewsMaxAge
             THEN fetched
             ELSE [file |-> file, nreq |-> 0, err |-> NoErr,
                   ret |-> d[symbol]]
        ELSE fetched

\* A caller runs get_news_with_cache(symbol), symbol in S.
CallGetNews(S) ==
    \E sym \in S, resp \in NewsResponses :
        LET r == get_news_with_cache(news, sym, resp, today)
        IN  /\ news' = r.file
            /\ last' = [op |-> "get_news_with_cache", key |-> <<sym>>,
                        nreq |-> r.nreq, err |-> r.err, ret |-> r.ret,
                        pre |-> news, resp |-> resp]
            /\ prev' = Brief(last)
            /\ UNCHANGED inflight
            /\ UNCHANGED <<today, clock, rates, etfs, companies, eps,
                           history, images, upload, csv, cum>>

-----------------------------------------------------------------------------
(* Charts and the analysis route.                                          *)

\* images/<prefix><timestamp>.png with what it shows.
Image(prefix, ts, content) ==
    [prefix |-> prefix, ts |-> ts, content |-> content]

\* A mutant of RemoveImages: nothing is removed.
RemoveImages_none(imgs, prefix) == imgs

\* for f in glob.glob("images/<prefix>*.png"): os.remove(f)
RemoveImages(imgs, prefix) == {f \in imgs : f.prefix # prefix}

\* A file written under a name replaces the file of that name.
WriteImage(imgs, f) ==
    {g \in imgs : ~(g.prefix = f.prefix /\ g.ts = f.ts)} \cup {f}

\* x * ratio for a price x and a stored ratio, kept exact.
Scaled(x, ratio) == Ratio(x * ratio.num, ratio.den)

\* df["Close"] = df["AdjustedClose"]; Open, High, Low times df["Ratio"]: the
\* row as the chart draws it.
adjust_row(row) ==
    [Date |-> row.Date, Symbol |-> row.Symbol,
     Open |-> Scaled(row.Open, row.Ratio),
     High |-> Scaled(row.High, row.Ratio),
     Low |-> Scaled(row.Low, row.Ratio),
     Close |-> row.AdjustedClose, Volume |-> row.Volume,
     AdjustedClose |-> row.AdjustedClose, Ratio |-> row.Ratio]

RECURSIVE sort_by_date(_)
\* df.sort_values(by=["Date"]) on the Date column parsed to datetime.
sort_by_date(rows) ==
    IF Len(rows) = 0 THEN <<>>
    ELSE LET x == rows[Len(rows)]
             front == sort_by_date(SubSeq(rows, 1, Len(rows) - 1))
             k == Cardinality({i \in 1 .. Len(front) :
                      ToOrdinal(front[i].Date) <= ToOrdinal(x.Date)})
         IN  SubSeq(front, 1, k) \o <<x>> \o SubSeq(front, k + 1, Len(front))

\* The frame mpf.plot is handed: the rows adjusted, in date order.
plotted_frame(rows) ==
    sort_by_date([i \in 1 .. Len(rows) |-> adjust_row(rows[i])])

\* A mutant of PlotHistory: the frame is charted without looking at its
\* length.
PlotHistory_unchecked(r, imgs, symbol, year, ts) ==
    IF r.err # NoErr
    THEN [hist |-> r.hist, imgs |-> imgs, nreq |-> r.nreq, err |-> r.err,
          caught |-> r.caught, plotted |-> <<>>]
    ELSE [hist |-> r.hist,
          imgs |-> WriteImage(RemoveImages(imgs, "history"),
                      Image("history", ts, "chart")),
          nreq |-> r.nreq, err |-> NoErr, caught |-> r.caught,
          plotted |-> plotted_frame(RowsOf(r.hist[year], symbol))]

\* gen_plot_history after the lookup r: the old charts removed and the new
\* one written, the placeholder when the frame has no rows.
PlotHistory(r, imgs, symbol, year, ts) ==
    IF r.err # NoErr
    THEN [hist |-> r.hist, imgs |-> imgs, nreq |-> r.nreq, err |-> r.err,
          caught |-> r.caught, plotted |-> <<>>]
    ELSE [hist |-> r.hist,
          imgs |-> WriteImage(RemoveImages(imgs, "history"),
                      Image("history", ts,
                            IF Len(RowsOf(r.hist[year], symbol)) = 0
                            THEN "placeholder" ELSE "chart")),
          nreq |-> r.nreq, err |-> NoErr, caught |-> r.caught,
          plotted |-> plotted_frame(RowsOf(r.hist[year], symbol))]

\* gen_plot_history(conn, symbol, year, timestamp).
gen_plot_history(hist, conn, imgs, symbol, year, ts, resp) ==
    PlotHistory(get_history_with_cache(hist, conn, symbol, year, resp),
                imgs, symbol, year, ts)

\* A caller runs gen_plot_history(conn, symbol, year, timestamp) on the
\* module's conn, symbol in S and year in Y, stamped with the time it is.
CallGenPlotHistory(S, Y, RH) ==
    \E sym \in S, y \in Y, resp \in RH :
        \E r \in {gen_plot_history(history, ModuleConn, images, sym, y,
                                    <<FromOrdinal(today), clock>>, resp)} :
            /\ history' = r.hist
            /\ images' = r.imgs
            /\ last' = [op |-> "gen_plot_history", key |-> <<sym, y>>,
                        nreq |-> r.nreq, err |-> r.err,
                        ret |-> IF r.err = NoErr THEN "none" ELSE "raised",
                        pre |-> history, resp |-> resp, caught |-> r.caught,
                        plotted |-> r.plotted,
                        ts |-> <<FromOrdinal(today), clock>>]
            /\ prev' = Brief(last)
            /\ UNCHANGED inflight
            /\ UNCHANGED <<today, clock, rates, etfs, companies, eps, news,
                           upload, csv, cum>>

\* a < b for date strings of four-digit years.
DateBefore(a, b) ==
    \/ a[1] < b[1]
    \/ a[1] = b[1] /\ a[2] < b[2]
    \/ a[1] = b[1] /\ a[2] = b[2] /\ a[3] < b[3]

\* The columns clean_eps selects, each the quarter and the field it holds:
\* 'EPSiDate', 'EPSiReported', and for the expected values 'EPS1Expected',
\* 'EPS2Expected', 'EPS3Expected', 'EPS4Reported'.
DateColumns ==
    << <<1, "fiscalDateEnding">>, <<2, "fiscalDateEnding">>,
       <<3, "fiscalDateEnding">>, <<4, "fiscalDateEnding">> >>

ReportedColumns ==
    << <<1, "reportedEPS">>, <<2, "reportedEPS">>, <<3, "reportedEPS">>,
       <<4, "reportedEPS">> >>

ExpectedColumns ==
    << <<1, "estimatedEPS">>, <<2, "estimatedEPS">>, <<3, "estimatedEPS">>,
       <<4, "reportedEPS">> >>

\* The value of a column in a row of the EPS table.
ColumnOf(row, c) == row.Q[c[1]][c[2]]

\* eps[columns].transpose() with 'Type' added and the dates joined on: one
\* row (EPS, Type, Date) per selected column.
LongFrame(row, columns, type) ==
    [i \in 1 .. Len(columns) |->
        [EPS |-> ColumnOf(row, columns[i]), Type |-> type,
         Date |-> ColumnOf(row, DateColumns[i])]]

\* Row a sorts before row b under ['Type', 'Date'].
LongBefore(a, b) ==
    \/ a.Type = "Expected" /\ b.Type = "Reported"
    \/ a.Type = b.Type /\ DateBefore(a.Date, b.Date)

RECURSIVE sort_type_date(_)
\* .sort_values(['Type', 'Date']): rows of equal keys keep their order.
sort_type_date(rows) ==
    IF Len(rows) = 0 THEN <<>>
    ELSE LET x == rows[Len(rows)]
             front == sort_type_date(SubSeq(rows, 1, Len(rows) - 1))
             k == Cardinality({i \in 1 .. Len(front) :
                      ~LongBefore(x, front[i])})
         IN  SubSeq(front, 1, k) \o <<x>> \o SubSeq(front, k + 1, Len(front))

\* clean_eps(eps) on the frame get_eps_with_cache returned.  A frame without
\* rows leaves no 'Type' column to sort by.
clean_eps(frame) ==
    IF Len(frame) = 0 THEN [err |-> "KeyError", rows |-> <<>>]
    ELSE [err |-> NoErr,
          rows |-> sort_type_date(
                       LongFrame(frame[1], ReportedColumns, "Reported")
                           \o LongFrame(frame[1], ExpectedColumns,
                                        "Expected"))]

\* A caller runs clean_eps(eps) on the rows the EPS table holds for a symbol
\* in S.
CallCleanEps(S) ==
    \E sym \in S :
        /\ last' = [op |-> "clean_eps", key |-> <<sym>>, nreq |-> 0,
                    err |-> clean_eps(RowsOf(eps, sym)).err,
                    ret |-> clean_eps(RowsOf(eps, sym)).rows,
                    pre |-> RowsOf(eps, sym)]
        /\ prev' = Brief(last)
        /\ UNCHANGED <<today, clock, rates, etfs, companies, eps, history,
                       news, images, upload, csv, cum, inflight>>

\* clean_eps and gen_plot_eps.  On a frame without rows clean_eps builds
\* frames that have no 'Type' column and sort_values raises KeyError.
gen_plot_eps(imgs, rows, ts) ==
    IF Len(rows) = 0 THEN [imgs |-> imgs, err |-> "KeyError"]
    ELSE [imgs |-> WriteImage(RemoveImages(imgs, "eps"),
                              Image("eps", ts, "chart")),
          err |-> NoErr]

\* The store as a handler sees it.
Store ==
    [etfs |-> etfs, news |-> news, history |-> history,
     companies |-> companies, eps |-> eps, images |-> images]

\* What analysis_route hands back: the store, the requests issued per
\* domain, the error that ended the handler (a 500) if any.
Outcome(st, reqs, err) == [st |-> st, reqs |-> reqs, err |-> err]

NoReqs == [etf |-> 0, news |-> 0, history |-> 0, company |-> 0, eps |-> 0]

\* The handler's steps, each taking the outcome so far and what the call it
\* makes came back with.
AfterEtfs(o, e) ==
    Outcome([o.st EXCEPT !.etfs = e.tbl], [o.reqs EXCEPT !.etf = e.nreq],
            e.err)

AfterNews(o, n) ==
    Outcome([o.st EXCEPT !.news = n.file], [o.reqs EXCEPT !.news = n.nreq],
            n.err)

AfterHistoryPlot(o, h) ==
    Outcome([o.st EXCEPT !.history = h.hist, !.images = h.imgs],
            [o.reqs EXCEPT !.history = h.nreq], h.err)

AfterCompany(o, c) ==
    Outcome([o.st EXCEPT !.companies = c.tbl],
            [o.reqs EXCEPT !.company = c.nreq], c.err)

AfterEps(o, p) ==
    Outcome([o.st EXCEPT !.eps = p.tbl], [o.reqs EXCEPT !.eps = p.nreq],
            p.err)

AfterEpsPlot(o, g) == Outcome([o.st EXCEPT !.images = g.imgs], o.reqs, g.err)

\* ETFs = get_all_ETFs_with_cache(conn)
RouteEtfs(o, R, day) ==
    AfterEtfs(o, get_all_ETFs_with_cache(o.st.etfs, R.etf, day))

\* NEWS = get_news_with_cache(symbol)
RouteNews(o, symbol, R, day) ==
    IF o.err # NoErr THEN o
    ELSE AfterNews(o, get_news_with_cache(o.st.news, symbol, R.news, day))

\* gen_plot_history(conn, symbol=symbol, year=last_year, timestamp=timestamp)
RouteHistory(o, symbol, R, day, ts) ==
    IF o.err # NoErr THEN o
    ELSE AfterHistoryPlot(o,
             gen_plot_history(o.st.history, RouteConn, o.st.images, symbol,
                              YearOf(FromOrdinal(day)) - 1, ts, R.history))

\* A mutant of RouteCompany: the company is looked up for an ETF as well.
RouteCompany_always(o, symbol, R) ==
    IF o.err # NoErr THEN o
    ELSE AfterCompany(o,
             get_company_info_with_cache(o.st.companies, symbol, R.company))

\* if WHETHER_ETF is False: get_company_info_with_cache(conn, symbol)
RouteCompany(o, symbol, R) ==
    IF o.err # NoErr \/ HasSymbol(o.st.etfs, symbol) THEN o
    ELSE AfterCompany(o,
             get_company_info_with_cache(o.st.companies, symbol, R.company))

\* A mutant of RouteEps: the EPS row is looked up whether or not the steps
\* before it raised.
RouteEps_regardless(o, symbol, R, day) ==
    IF HasSymbol(o.st.etfs, symbol) THEN o
    ELSE AfterEps(o,
             get_eps_with_cache(o.st.eps, o.st.companies, RouteConn, symbol,
                                R.eps, day))

\* eps = get_eps_with_cache(conn, symbol)
RouteEps(o, symbol, R, day) ==
    IF o.err # NoErr \/ HasSymbol(o.st.etfs, symbol) THEN o
    ELSE AfterEps(o,
             get_eps_with_cache(o.st.eps, o.st.companies, RouteConn, symbol,
                                R.eps, day))

\* gen_plot_eps(clean_eps(eps), timestamp)
RouteEpsPlot(o, symbol, ts) ==
    IF o.err # NoErr \/ HasSymbol(o.st.etfs, symbol) THEN o
    ELSE AfterEpsPlot(o,
             gen_plot_eps(o.st.images, RowsOf(o.st.eps, symbol), ts))

\* symbol(symbol), the handler of /analysis/<symbol>, on its own connection:
\* the ETF list, the news, the history chart of last year, then for a symbol
\* that is no ETF the company row, the EPS row and the EPS chart.  An error
\* ends the handler (a 500) and what was written before it stays.  R holds
\* what each upstream would answer if asked.
analysis_route(st, symbol, R, day, ts) ==
    RouteEpsPlot(
        RouteEps(
            RouteCompany(
                RouteHistory(
                    RouteNews(
                        RouteEtfs(Outcome(st, NoReqs, NoErr), R, day),
                        symbol, R, day),
                    symbol, R, day, ts),
                symbol, R),
            symbol, R, day),
        symbol, ts)

\* GET /analysis/<symbol>, symbol in S, at a time of day in T not before the
\* last request; RE, RN, RH, RC, RP are the answers the upstreams may give.
Analysis(S, T, RE, RN, RH, RC, RP) ==
    \E sym \in S, t \in {x \in T : x >= clock}, re \in RE, rn \in RN,
       rh \in RH, rc \in RC, rp \in RP :
        \E o \in {analysis_route(Store, sym,
                                  [etf |-> re, news |-> rn, history |-> rh,
                                   company |-> rc, eps |-> rp],
                                  today, <<FromOrdinal(today), t>>)} :
            /\ clock' = t
            /\ etfs' = o.st.etfs
            /\ news' = o.st.news
            /\ history' = o.st.history
            /\ companies' = o.st.companies
            /\ eps' = o.st.eps
            /\ images' = o.st.images
            /\ last' = [op |-> "analysis", key |-> <<sym>>,
                        nreq |-> o.reqs.etf + o.reqs.news + o.reqs.history
                                 + o.reqs.company + o.reqs.eps,
                        err |-> o.err,
                        ret |-> IF o.err = NoErr THEN "page" ELSE "500",
                        pre |-> <<>>, reqs |-> o.reqs,
                        ts |-> <<FromOrdinal(today), t>>]
            /\ prev' = Brief(last)
            /\ UNCHANGED inflight
            /\ UNCHANGED <<today, rates, upload, csv, cum>>

-----------------------------------------------------------------------------
(* The uploaded ledger and its cleaning.  A string that is parsed is the   *)
(* sequence of its characters; a date in '%m/%d/%Y' form is <<m, d, y>>.   *)

\* The value of a digit character.
Digit ==
    "0" :> 0 @@ "1" :> 1 @@ "2" :> 2 @@ "3" :> 3 @@ "4" :> 4 @@ "5" :> 5
        @@ "6" :> 6 @@ "7" :> 7 @@ "8" :> 8 @@ "9" :> 9

RECURSIVE DigitsValue(_)
\* The number a string of digits writes.
DigitsValue(s) ==
    IF Len(s) = 0 THEN 0
    ELSE 10 * DigitsValue(SubSeq(s, 1, Len(s) - 1)) + Digit[s[Len(s)]]

\* astype('float') on a decimal numeral of at most two decimals: its value,
\* in cents.
ParseFloat(s) ==
    LET dots == {i \in 1 .. Len(s) : s[i] = "."}
        p == IF dots = {} THEN Len(s) + 1 ELSE CHOOSE i \in dots : TRUE
        frac == SubSeq(s, p + 1, Len(s))
    IN  100 * DigitsValue(SubSeq(s, 1, p - 1))
            + (IF Len(frac) = 1 THEN 10 * DigitsValue(frac)
               ELSE DigitsValue(frac))

\* value.replace('$', '').replace(',', '')
clean_dollar_to_float(value) ==
    SelectSeq(value, LAMBDA c : c \notin {"$", ","})

\* strptime(datestr, '%m/%d/%Y').strftime('%Y-%m-%d')
clean_date_firstrade(datestr) ==
    FromOrdinal(ToOrdinal(<<datestr[3], datestr[1], datestr[2]>>))

\* The lines of a Firstrade export: a title, the column names, one line per
\* lot sold, three lines of totals.
TitleLine == [kind |-> "title"]

ColumnsLine == [kind |-> "columns"]

SummaryLine == [kind |-> "summary"]

LotLine(symbol, quantity, acquired, sold, proceeds, cost) ==
    [kind |-> "lot", Symbol |-> symbol, Quantity |-> quantity,
     Date_Acquired |-> acquired, Date_Sold |-> sold,
     Sales_Proceeds |-> proceeds, Cost |-> cost]

\* pd.read_csv(file): the first line names the columns, the rest are rows
\* 0, 1, 2, ...
read_csv(file) == Tail(file)

\* clean_firstrade: rows 1 .. -4 of the frame under their index labels, with
\* the amounts parsed and the dates reformatted.
clean_firstrade(df) ==
    LET body == SubSeq(df, 2, Len(df) - 3)
    IN  [i \in 1 .. Len(body) |->
            [Index |-> i,
             Symbol |-> body[i].Symbol,
             Quantity |-> body[i].Quantity,
             Date_Acquired |-> clean_date_firstrade(body[i].Date_Acquired),
             Date_Sold |-> clean_date_firstrade(body[i].Date_Sold),
             Sales |-> ParseFloat(clean_dollar_to_float(
                                      body[i].Sales_Proceeds)),
             Cost |-> ParseFloat(clean_dollar_to_float(body[i].Cost))]]

\* Lots a ledger may hold: sold within 2020, bought in 2019 and sold in
\* 2020, bought and sold in 2019, bought and sold on one day.
LotsPool ==
    { LotLine("AAPL", 10, <<1, 1, 2020>>, <<3, 1, 2020>>,
              <<"$", "1", ",", "1", "0", "0", ".", "5", "1">>,
              <<"$", "1", ",", "0", "0", "0", ".", "0", "0">>),
      LotLine("MSFT", 5, <<1, 1, 2020>>, <<1, 1, 2020>>,
              <<"$", "2", "0", "0", ".", "0", "0">>,
              <<"$", "2", "5", "0", ".", "2", "7">>),
      LotLine("AAPL", 3, <<12, 31, 2019>>, <<3, 1, 2020>>,
              <<"$", "3", "3", "0", ".", "1", "3">>,
              <<"$", "3", "0", "0", ".", "0", "0">>),
      LotLine("MSFT", 2, <<6, 3, 2019>>, <<12, 31, 2019>>,
              <<"$", "1", "5", "0", ".", "7", "7">>,
              <<"$", "1", "4", "9", ".", "0", "0">>),
      LotLine("AAPL", 1, <<3, 1, 2020>>, <<12, 31, 2020>>,
              <<"$", "9", "9", ".", "9", "9">>,
              <<"$", "1", "2", "3", ".", "4", "7">>),
      LotLine("MSFT", 4, <<12, 31, 2019>>, <<12, 31, 2020>>,
              <<"$", "6", "1", "2", ".", "3", "3">>,
              <<"$", "5", "0", "0", ".", "0", "0">>) }

\* A ledger holds at most this many lots.
MaxLots == 2

\* The files a user may post: one lot or more.
Uploads ==
    { <<TitleLine, ColumnsLine>> \o lots
          \o <<SummaryLine, SummaryLine, SummaryLine>> :
      lots \in SeqsUpTo(LotsPool, MaxLots) \ {<<>>} }

\* The dates of the pool's lots.
LedgerDates ==
    { <<2019, 6, 3>>, <<2019, 12, 31>>, <<2020, 1, 1>>, <<2020, 3, 1>>,
      <<2020, 12, 31>> }

\* The rate of the day, in thousandths, as the FX endpoint reports it.
Quote(currency, date) ==
    IF currency = "CNY"
    THEN CASE date = <<2019, 6, 3>> -> 6907
           [] date = <<2019, 12, 31>> -> 6963
           [] date = <<2020, 1, 1>> -> 6964
           [] date = <<2020, 3, 1>> -> 6992
           [] OTHER -> 6527
    ELSE CASE date = <<2019, 6, 3>> -> 1436
           [] date = <<2019, 12, 31>> -> 1424
           [] date = <<2020, 1, 1>> -> 1426
           [] date = <<2020, 3, 1>> -> 1534
           [] OTHER -> 1298

\* The FX endpoint answering every day.
FxUp ==
    [k \in Currencies \X LedgerDates |->
        [kind |-> "ok", rate |-> Quote(k[1], k[2])]]

\* What the FX endpoint would answer to each (currency, date): all rates;
\* an error payload for one day; no response for one day.
FxOracles ==
    { FxUp,
      [k \in Currencies \X LedgerDates |->
          IF k[2] = <<2020, 3, 1>> THEN [kind |-> "nokey"] ELSE FxUp[k]],
      [k \in Currencies \X LedgerDates |->
          IF k[2] = <<2019, 12, 31>> THEN [kind |-> "transport"]
          ELSE FxUp[k]] }

-----------------------------------------------------------------------------
(* Conversion of the ledger and the cumulative gain/loss series.           *)

\* n / d rounded to the nearest integer, a tie to the even one (round on a
\* value that floating point holds exactly).
round(n, d) ==
    LET q == n \div d
        r == n % d
    IN  IF 2 * r < d THEN q
        ELSE IF 2 * r > d THEN q + 1
        ELSE IF q % 2 = 0 THEN q ELSE q + 1

\* A mutant of round_rate: the rate cut to two decimals.
round_rate_cut(rate) == rate \div 10

\* df.round({'Rate Acquired': 2, 'Rate Sold': 2}): a rate in thousandths to
\* hundredths.
round_rate(rate) == round(rate, 10)

\* df.round({'Converted Cost': 2, 'Converted Sales': 2}) on cents times a
\* rate in hundredths: cents.
round_converted(amount) == round(amount, 100)

\* df.round({'Gain&Loss': 2}) on a difference of cents: cents.
round_gain(amount) == round(amount, 1)

\* What a column of lookups has come to: the table, the requests issued,
\* the error that stopped it, the rates returned.
Lookups(tbl, nreq, err, rets) ==
    [tbl |-> tbl, nreq |-> nreq, err |-> err, rets |-> rets]

\* One more lookup r after the lookups acc.
AndLookup(acc, r) ==
    Lookups(r.tbl, acc.nreq + r.nreq, r.err,
            IF r.err = NoErr THEN Append(acc.rets, r.ret) ELSE acc.rets)

RECURSIVE LookupRates(_, _, _, _)
\* df.apply(lambda x: get_rates_with_cache(conn, currency, x[column]),
\* axis=1): one lookup per row, in row order, until one raises.
LookupRates(acc, currency, dates, oracle) ==
    IF Len(dates) = 0 \/ acc.err # NoErr THEN acc
    ELSE LookupRates(
             AndLookup(acc,
                 get_rates_with_cache(acc.tbl, currency, Head(dates),
                                      oracle[<<currency, Head(dates)>>])),
             currency, Tail(dates), oracle)

\* The rank of a symbol in string order.
SymbolOrder == <<"AAPL", "MSFT", "SPY">>

SymbolRank(symbol) ==
    CHOOSE i \in 1 .. Len(SymbolOrder) : SymbolOrder[i] = symbol

\* Row a sorts before row b under ["Symbol", "Date Sold"].
RowBefore(a, b) ==
    \/ SymbolRank(a.Symbol) < SymbolRank(b.Symbol)
    \/ a.Symbol = b.Symbol /\ DateBefore(a.Date_Sold, b.Date_Sold)

\* A mutant of sort_values: the frame is returned in the order of the file.
sort_values_asis(df) == df

RECURSIVE sort_values(_)
\* df.sort_values(["Symbol", "Date Sold"]): rows of equal keys keep their
\* order.
sort_values(df) ==
    IF Len(df) = 0 THEN <<>>
    ELSE LET x == df[Len(df)]
             front == sort_values(SubSeq(df, 1, Len(df) - 1))
             k == Cardinality({i \in 1 .. Len(front) : ~RowBefore(x, front[i])})
         IN  SubSeq(front, 1, k) \o <<x>> \o SubSeq(front, k + 1, Len(front))

\* The converted columns of one row, from the rates looked up for it.
ConvertedRow(row, rate_acquired, rate_sold) ==
    LET ra == round_rate(rate_acquired)
        rs == round_rate(rate_sold)
        cost == round_converted(row.Cost * ra)
        sales == round_converted(row.Sales * rs)
    IN  [Index |-> row.Index, Symbol |-> row.Symbol,
         Quantity |-> row.Quantity, Date_Acquired |-> row.Date_Acquired,
         Cost |-> row.Cost, Rate_Acquired |-> ra, Converted_Cost |-> cost,
         Date_Sold |-> row.Date_Sold, Sales |-> row.Sales, Rate_Sold |-> rs,
         Converted_Sales |-> sales, Gain_Loss |-> round_gain(sales - cost)]

\* The frame once the rates looked up (the acquisition dates' first, then
\* the disposal dates') are there, the table as the lookups left it.
WithRates(df, looked) ==
    IF looked.err # NoErr
    THEN [tbl |-> looked.tbl, nreq |-> looked.nreq, err |-> looked.err,
          df |-> <<>>]
    ELSE [tbl |-> looked.tbl, nreq |-> looked.nreq, err |-> NoErr,
          df |-> sort_values(
                     [i \in 1 .. Len(df) |->
                         ConvertedRow(df[i], looked.rets[i],
                                      looked.rets[Len(df) + i])])]

\* convert_transaction_history(conn, df, broker, currency) on the table of
\* the currency.  A frame that was not cleaned has no 'Date Acquired'.
convert_transaction_history(tbl, df, broker, currency, oracle) ==
    IF broker # "firstrade"
    THEN [tbl |-> tbl, nreq |-> 0, err |-> "KeyError", df |-> <<>>]
    ELSE WithRates(clean_firstrade(df),
             LookupRates(
                 LookupRates(Lookups(tbl, 0, NoErr, <<>>), currency,
                     [i \in 1 .. Len(clean_firstrade(df)) |->
                         clean_firstrade(df)[i].Date_Acquired],
                     oracle),
                 currency,
                 [i \in 1 .. Len(clean_firstrade(df)) |->
                     clean_firstrade(df)[i].Date_Sold],
                 oracle))

\* The day of the year of a date.
DayOfYear(date) == ToOrdinal(date) - DaysBeforeYear(YearOf(date))

RECURSIVE SumGain(_)
\* The sum of column Gain&Loss.
SumGain(df) ==
    IF Len(df) = 0 THEN 0
    ELSE SumGain(SubSeq(df, 1, Len(df) - 1)) + df[Len(df)].Gain_Loss

\* df.groupby(by=["Date Sold"]).sum()[['Gain&Loss']]: per disposal date the
\* sum of the gains of its rows.
groupby_date_sold(df) ==
    [d \in {df[i].Date_Sold : i \in 1 .. Len(df)} |->
        SumGain(SelectSeq(df, LAMBDA row : row.Date_Sold = d))]

\* cum.reindex(all_dates).fillna(0.0) over the days of the year: the sum of
\* the day where the frame has the day, 0 elsewhere.
reindex_fillna(grouped, year) ==
    [k \in 1 .. DaysInYear(year) |->
        IF FromOrdinal(DaysBeforeYear(year) + k) \in DOMAIN grouped
        THEN grouped[FromOrdinal(DaysBeforeYear(year) + k)]
        ELSE 0]

\* A mutant of cumsum: the daily sums left as they are.
cumsum_daily(daily, k, acc) == daily

RECURSIVE RunningTotals(_, _, _, _)
\* The running totals of days k .. hi, acc the total before day k.
RunningTotals(daily, k, hi, acc) ==
    IF k > hi THEN <<>>
    ELSE <<acc + daily[k]>>
             \o RunningTotals(daily, k + 1, hi, acc + daily[k])

RECURSIVE cumsum(_, _, _)
\* .cumsum(): the running totals from day k on, acc the total before it,
\* taken a month's worth of days at a time.
cumsum(daily, k, acc) ==
    IF k > Len(daily) THEN <<>>
    ELSE LET hi == IF k + 30 < Len(daily) THEN k + 30 ELSE Len(daily)
             block == RunningTotals(daily, k, hi, acc)
         IN  block \o cumsum(daily, hi + 1, block[Len(block)])

\* No chart drawn yet.
NoPlot == [year |-> 0, values |-> <<>>]

\* gen_plot_cumulative_gain(df, currency, filename): the old charts removed,
\* the year read off row 0, column 2 ('Date Acquired'), the series drawn
\* and saved.
gen_plot_cumulative_gain(imgs, series, df, ts) ==
    IF Len(df) = 0
    THEN [imgs |-> RemoveImages(imgs, "cumulative"), cum |-> series,
          err |-> "IndexError"]
    ELSE [imgs |-> WriteImage(RemoveImages(imgs, "cumulative"),
                              Image("cumulative", ts, "chart")),
          cum |-> [year |-> YearOf(df[1].Date_Acquired),
                   values |-> cumsum(
                       reindex_fillna(groupby_date_sold(df),
                                      YearOf(df[1].Date_Acquired)),
                       1, 0)],
          err |-> NoErr]

\* output_csv(df): files/converted.csv replaced.
output_csv(df) == File(df)

\* What the handler of /converted leaves behind, and how it ended.
Posted(tbl, imgs, series, file, nreq, err, df) ==
    [tbl |-> tbl, imgs |-> imgs, cum |-> series, csv |-> file,
     nreq |-> nreq, err |-> err, df |-> df]

\* The handler after the conversion c: the chart, then the file.
PlotAndSave(c, g, file) ==
    IF g.err # NoErr
    THEN Posted(c.tbl, g.imgs, g.cum, file, c.nreq, g.err, <<>>)
    ELSE Posted(c.tbl, g.imgs, g.cum, output_csv(c.df), c.nreq, NoErr, c.df)

\* A mutant of AfterConversion: a failed conversion removes the saved file.
AfterConversion_clears(c, imgs, series, file, ts) ==
    IF c.err # NoErr
    THEN Posted(c.tbl, imgs, series, NoFile, c.nreq, c.err, <<>>)
    ELSE PlotAndSave(c, gen_plot_cumulative_gain(imgs, series, c.df, ts),
                     file)

AfterConversion(c, imgs, series, file, ts) ==
    IF c.err # NoErr
    THEN Posted(c.tbl, imgs, series, file, c.nreq, c.err, <<>>)
    ELSE PlotAndSave(c, gen_plot_cumulative_gain(imgs, series, c.df, ts),
                     file)

\* converted(), the handler of POST /converted, on its own connection.
converted_route(tbl, imgs, series, file, posted, broker, ccy, oracle, ts) ==
    AfterConversion(
        convert_transaction_history(tbl, read_csv(posted), broker, ccy,
                                    oracle),
        imgs, series, file, ts)

\* POST /converted with the file the user chose, a brokerage in B, a
\* currency in C; F is what the FX endpoint may answer.
Converted(B, C, F) ==
    /\ Len(upload) > 0
    /\ \E broker \in B, currency \in C, oracle \in F :
        \E o \in {converted_route(rates[currency], images, cum, csv, upload,
                                  broker, currency, oracle,
                                  <<FromOrdinal(today), clock>>)} :
            /\ rates' = [rates EXCEPT ![currency] = o.tbl]
            /\ images' = o.imgs
            /\ cum' = o.cum
            /\ csv' = o.csv
            /\ upload' = <<>>
            /\ last' = [op |-> "converted", key |-> <<broker, currency>>,
                        nreq |-> o.nreq, err |-> o.err, ret |-> o.df,
                        pre |-> rates[currency], posted |-> upload]
            /\ prev' = Brief(last)
            /\ UNCHANGED inflight
            /\ UNCHANGED <<today, clock, etfs, companies, eps, history,
                           news>>

\* GET /download: send_file("files/converted.csv").
Download ==
    /\ last' = [op |-> "download", key |-> <<>>, nreq |-> 0,
                err |-> IF csv.exists THEN NoErr ELSE "FileNotFoundError",
                ret |-> csv, pre |-> <<>>]
    /\ prev' = Brief(last)
    /\ UNCHANGED inflight
    /\ UNCHANGED <<today, clock, rates, etfs, companies, eps, history, news,
                   images, upload, csv, cum>>


-----------------------------------------------------------------------------
(* Requests served at the same time.  The server hands each request to a   *)
(* thread of its own; a handler's reads and writes of the store and of the *)
(* files are the steps other handlers may run between.                     *)

\* The requests that may be in service together.
Requests == {1, 2}

\* No handler is running for the request.
Idle == [pc |-> "idle"]

-----------------------------------------------------------------------------
(* Initial state: an empty database file, no files written, no call yet.   *)

FreshStart ==
    /\ today = ToOrdinal(StartDate)
    /\ clock = 0
    /\ rates = [c \in Currencies |-> <<>>]
    /\ etfs = <<>>
    /\ companies = <<>>
    /\ eps = <<>>
    /\ history = [y \in Years |-> <<>>]
    /\ news = NoFile
    /\ images = {}
    /\ csv = NoFile
    /\ cum = NoPlot
    /\ last = NoCall
    /\ prev = Brief(NoCall)
    /\ inflight = [p \in Requests |-> Idle]

\* No ledger is being posted.
Init == FreshStart /\ upload = <<>>

\* The user has chosen a file to post.
InitLedger == FreshStart /\ upload \in Uploads

-----------------------------------------------------------------------------
(* The exchange-rate cache on its own.                                     *)

NextFX == CallGetRates

SpecFX == Init /\ [][NextFX]_vars

\* C1: a get_rates_with_cache call that directly follows a successful call
\* for the same (currency, date) returns the same rate, issues no upstream
\* request and leaves the Rates table as it was; the two calls together
\* issue at most one request (the first issued at most one).
C1_SecondCallIsPureHit ==
    /\ (last.op = "get_rates_with_cache" => last.nreq <= 1)
    /\ (/\ last.op = "get_rates_with_cache"
        /\ prev.op = "get_rates_with_cache"
        /\ prev.key = last.key
        /\ prev.err = NoErr)
       => /\ last.err = NoErr
          /\ last.ret = prev.ret
          /\ last.nreq = 0
          /\ rates[last.key[1]] = last.pre

\* C1 witness: the first call missed and fetched, the second one hit.
C1_Witness ==
    /\ last.op = "get_rates_with_cache"
    /\ prev.op = "get_rates_with_cache"
    /\ prev.key = last.key
    /\ prev.err = NoErr
    /\ prev.nreq = 1
    /\ last.nreq = 0
    /\ last.ret = prev.ret
    /\ last.ret \in RateVals

-----------------------------------------------------------------------------
(* The ETF table and the clock.                                            *)

\* Days the clock runs in SpecETF.
EtfHorizon == 31

TickETF == Tick(EtfHorizon)

NextETF == CallGetAllETFs \/ TickETF

SpecETF == Init /\ [][NextETF]_vars

\* The call just made was get_all_ETFs_with_cache on a non-empty table.
EtfCallOnFilled ==
    last.op = "get_all_ETFs_with_cache" /\ Len(last.pre) > 0

\* C2: on a non-empty ETFs table whose recorded last-update date is fewer
\* than 30 days before today, get_all_ETFs_with_cache issues no upstream
\* request and leaves the table unchanged.
C2_FreshEtfsNoRequest ==
    (EtfCallOnFilled /\ today - ToOrdinal(last.pre[1].LastUpdate) < 30)
        => /\ last.nreq = 0
           /\ etfs = last.pre
           /\ last.err = NoErr

\* C2 witness: a call made 29 days after the table was filled.
C2_Witness ==
    /\ EtfCallOnFilled
    /\ today - ToOrdinal(last.pre[1].LastUpdate) = 29
    /\ etfs = last.pre

\* The (symbol, name, exchange) entries a table's rows hold.
RowEntries(tbl) ==
    {[symbol |-> tbl[i].Symbol, name |-> tbl[i].Name,
      exchange |-> tbl[i].Exchange] : i \in 1 .. Len(tbl)}

ListEntries(list) == {list[i] : i \in 1 .. Len(list)}

\* Every entry has its three fields and no symbol comes twice.
WellFormedEtfList(list) ==
    /\ \A i \in 1 .. Len(list) :
           DOMAIN list[i] = {"symbol", "name", "exchange"}
    /\ \A i, j \in 1 .. Len(list) : list[i].symbol = list[j].symbol => i = j

\* The call just made found the table 30 or more days old.
EtfCallOnStale ==
    EtfCallOnFilled /\ today - ToOrdinal(last.pre[1].LastUpdate) >= 30

-----------------------------------------------------------------------------
(* Companies, EPS and the clock, on the module's connection.               *)

\* Days the clock runs in SpecEPS.
EpsHorizon == 11

TickEPS == Tick(EpsHorizon)

NextEPS ==
    \/ CallGetCompanyInfo(CompanySymbols, CompanyResponses)
    \/ CallGetEps(CompanySymbols, EpsResponses)
    \/ TickEPS

SpecEPS == Init /\ [][NextEPS]_vars

\* The call just made was get_eps_with_cache for a symbol with a cached row.
EpsCallOnCached ==
    last.op = "get_eps_with_cache" /\ HasSymbol(last.pre, last.key[1])

\* Days between the cached row's LastUpdate and today, at the call.
EpsCallAge == today - ToOrdinal(RowsOf(last.pre, last.key[1])[1].LastUpdate)

C4_WitnessFresh ==
    /\ EpsCallOnCached
    /\ EpsCallAge = 9
    /\ last.nreq = 0

-----------------------------------------------------------------------------
(* Price history and companies, on the module's connection.                *)

NextHist ==
    \/ CallGetCompanyInfo(CompanySymbols, CompanyResponses)
    \/ CallGetHistory(CompanySymbols, HistYears, HistoryResponses)

SpecHist == Init /\ [][NextHist]_vars

\* C6 as stated: get_history_with_cache for a symbol that has no row in
\* Companies leaves the History<year> table's row count unchanged, and when
\* the response holds bars of that year, so that an insert is attempted, the
\* call fails with an integrity error.
C6_HistoryNeedsCompany ==
    (last.op = "get_history_with_cache"
         /\ ~HasSymbol(companies, last.key[1])
         /\ ~HasSymbol(last.pre[last.key[2]], last.key[1]))
        => /\ Len(history[last.key[2]]) = Len(last.pre[last.key[2]])
           /\ (last.resp.kind = "series" => IsIntegrityError(last.err))

-----------------------------------------------------------------------------
(* The store under direct calls and /analysis requests.                    *)

RouteSymbols == {"SPY", "AAPL"}

RouteEtfResponses ==
    { [kind |-> "list",
       list |-> <<[symbol |-> "SPY", name |-> "SPDR S&P 500",
                   exchange |-> "NYSE Arca"]>>],
      [kind |-> "transport"] }

RouteNewsResponses == {[kind |-> "json", payload |-> "articles"]}

RouteHistoryResponses ==
    {[kind |-> "series", series |-> SeriesFull], [kind |-> "note"]}

RouteCompanyResponses ==
    { [kind |-> "list", name |-> "Apple Inc.", exchangeShortName |-> "NASDAQ"],
      [kind |-> "empty"] }

RouteEpsResponses ==
    {[kind |-> "earnings", quarterlyEarnings |-> EarningsFive],
     [kind |-> "note"]}

NextStore ==
    \/ CallGetCompanyInfo({"AAPL"}, RouteCompanyResponses)
    \/ CallGetEps({"AAPL"}, RouteEpsResponses)
    \/ CallGetHistory({"AAPL"}, {2020}, RouteHistoryResponses)
    \/ Analysis(RouteSymbols, {0}, RouteEtfResponses, RouteNewsResponses,
                RouteHistoryResponses, RouteCompanyResponses,
                RouteEpsResponses)

SpecStore == Init /\ [][NextStore]_vars

\* Every symbol of the table has a row in Companies.
RefsCompanies(tbl) ==
    \A i \in 1 .. Len(tbl) : HasSymbol(companies, tbl[i].Symbol)

\* C7 as stated: in every reachable state every symbol of the EPS table and
\* of every History<year> table has a row in Companies.
C7_ChildrenReferenceCompanies ==
    /\ RefsCompanies(eps)
    /\ \A y \in Years : RefsCompanies(history[y])

\* The EPS half of C7, which does hold: the route asks for the EPS row only
\* after the company row is there.
EpsReferencesCompanies == RefsCompanies(eps)

-----------------------------------------------------------------------------
(* One ledger posted to /converted, then downloaded.                       *)

Brokers == {"firstrade", "other"}

NextLedger ==
    \/ Converted(Brokers, Currencies, FxOracles)
    \/ Download

SpecLedger == InitLedger /\ [][NextLedger]_vars

\* A conversion has just completed and shown its ledger.
ConvertedOk == last.op = "converted" /\ last.err = NoErr

\* The rate the FX lookup returns for the date, in the ledger's currency.
LookedUp(date) == RateOf(rates[last.key[2]], date)

\* |a - b|
Dist(a, b) == IF a < b THEN b - a ELSE a - b

\* m is an integer nearest to n / d.
Nearest(m, n, d) == 2 * Dist(m * d, n) <= d

\* C8 as stated: in every row of the converted ledger Gain&Loss is
\* (proceeds x rate_sold) - (cost x rate_acquired) rounded to 2 decimals,
\* the rates being those the FX lookup returns for the two dates.
C8_AsStated ==
    ConvertedOk =>
        \A i \in 1 .. Len(last.ret) :
            Nearest(last.ret[i].Gain_Loss,
                    last.ret[i].Sales * LookedUp(last.ret[i].Date_Sold)
                        - last.ret[i].Cost
                              * LookedUp(last.ret[i].Date_Acquired),
                    1000)

\* C8, amended: in every row of the converted ledger the two rates shown
\* are the looked-up rates rounded to 2 decimals, Converted Cost and
\* Converted Sales are cost and proceeds times the rounded rate, each
\* rounded to 2 decimals, and Gain&Loss is Converted Sales minus Converted
\* Cost.
C8_GainFromRoundedRates ==
    ConvertedOk =>
        \A i \in 1 .. Len(last.ret) :
            LET row == last.ret[i]
            IN  /\ Nearest(row.Rate_Acquired, LookedUp(row.Date_Acquired), 10)
                /\ Nearest(row.Rate_Sold, LookedUp(row.Date_Sold), 10)
                /\ Nearest(row.Converted_Cost,
                           row.Cost * row.Rate_Acquired, 100)
                /\ Nearest(row.Converted_Sales,
                           row.Sales * row.Rate_Sold, 100)
                /\ row.Gain_Loss = row.Converted_Sales - row.Converted_Cost

\* A ledger of a gain and a loss was converted at rates of three decimals,
\* and one row's Gain&Loss is not what the unrounded rates give.
C8_Witness ==
    /\ ConvertedOk
    /\ \E i, j \in 1 .. Len(last.ret) :
           /\ last.ret[i].Gain_Loss > 0
           /\ last.ret[j].Gain_Loss < 0
           /\ LookedUp(last.ret[i].Date_Sold) % 10 # 0
           /\ LookedUp(last.ret[j].Date_Acquired) % 10 # 0
    /\ ~C8_AsStated

RECURSIVE GainSoldBy(_, _)
\* The sum of Gain&Loss over the rows disposed of on or before day n.
GainSoldBy(df, n) ==
    IF Len(df) = 0 THEN 0
    ELSE GainSoldBy(Tail(df), n)
             + (IF ToOrdinal(Head(df).Date_Sold) <= n
                THEN Head(df).Gain_Loss ELSE 0)

\* Every acquisition and every disposal of the ledger is in year y.
WithinYear(df, y) ==
    \A i \in 1 .. Len(df) :
        YearOf(df[i].Date_Acquired) = y /\ YearOf(df[i].Date_Sold) = y

\* Every disposal of the ledger is in year y.
SoldInYear(df, y) == \A i \in 1 .. Len(df) : YearOf(df[i].Date_Sold) = y

\* The series has one entry per day of year y, each the sum of Gain&Loss
\* over the rows disposed of by that day.
SeriesOfYear(df, y) ==
    /\ cum.year = y
    /\ DOMAIN cum.values = 1 .. DaysInYear(y)
    /\ \A d \in 1 .. DaysInYear(y) :
           cum.values[d] = GainSoldBy(df, DaysBeforeYear(y) + d)

\* C9: for a converted ledger whose acquisition and disposal dates all lie
\* in one year Y the cumulative series has one entry per calendar day of Y
\* and its value on day d is the sum of Gain&Loss over the rows disposed of
\* on or before d.
C9_SeriesCoversTheYear ==
    \A y \in Years :
        (ConvertedOk /\ WithinYear(last.ret, y)) => SeriesOfYear(last.ret, y)

\* A ledger within leap year 2020 with two disposal dates was plotted: 366
\* entries, a step at each disposal.
C9_Witness ==
    /\ ConvertedOk
    /\ WithinYear(last.ret, 2020)
    /\ Len(cum.values) = 366
    /\ \E i, j \in 1 .. Len(last.ret) :
           DateBefore(last.ret[i].Date_Sold, last.ret[j].Date_Sold)
    /\ cum.values[1] # 0
    /\ cum.values[59] = cum.values[1]
    /\ cum.values[61] # cum.values[1]

\* C10 as stated: for a converted ledger whose disposal dates all fall in
\* year Y, whatever the acquisition dates, the cumulative series covers the
\* days of Y and its value on Dec 31 of Y is the sum of Gain&Loss over all
\* rows.
C10_SeriesOverDisposalYear ==
    \A y \in Years :
        (ConvertedOk /\ SoldInYear(last.ret, y)) =>
            /\ cum.year = y
            /\ DOMAIN cum.values = 1 .. DaysInYear(y)
            /\ cum.values[DaysInYear(y)]
                   = GainSoldBy(last.ret, DaysBeforeYear(y + 1))

-----------------------------------------------------------------------------
(* Price history fetched and charted, on the module's connection.          *)

NextPlot ==
    \/ CallGetHistory(CompanySymbols, HistYears, HistoryResponses)
    \/ CallGenPlotHistory(CompanySymbols, HistYears, HistoryResponses)

SpecPlot == Init /\ [][NextPlot]_vars

\* The call just made was gen_plot_history and it returned.
PlotReturned == last.op = "gen_plot_history" /\ last.err = NoErr

\* The stored rows of the symbol and year the call just made was for.
RowsOfCall == RowsOf(history[last.key[2]], last.key[1])

\* The fraction f is x times the row's stored ratio.
IsScaled(f, x, row) ==
    f.den > 0 /\ f.num * row.Ratio.den = f.den * x * row.Ratio.num

\* The plotted row p is the stored row adjusted: open, high, low times the
\* ratio, close replaced by the adjusted close, volume as stored.
IsAdjusted(p, row) ==
    /\ p.Date = row.Date
    /\ IsScaled(p.Open, row.Open, row)
    /\ IsScaled(p.High, row.High, row)
    /\ IsScaled(p.Low, row.Low, row)
    /\ p.Close = row.AdjustedClose
    /\ p.Volume = row.Volume

\* C11: every stored price-history row has Ratio = AdjustedClose / Close,
\* and the frame gen_plot_history charts holds, for each stored row of the
\* symbol and year, that row with open, high and low multiplied by the
\* ratio, close replaced by the adjusted close and volume unchanged.
C11_RatioAndAdjustment ==
    /\ \A y \in Years : \A i \in 1 .. Len(history[y]) :
           /\ history[y][i].Close # 0
           /\ history[y][i].Ratio.den > 0
           /\ history[y][i].Ratio.num * history[y][i].Close
                  = history[y][i].Ratio.den * history[y][i].AdjustedClose
    /\ PlotReturned =>
           /\ Len(last.plotted) = Len(RowsOfCall)
           /\ \A i \in 1 .. Len(RowsOfCall) :
                  \E j \in 1 .. Len(last.plotted) :
                      IsAdjusted(last.plotted[j], RowsOfCall[i])

\* The bar of 2020-01-02 (open 98, close 100, adjusted close 95) was stored
\* with ratio 0.95 = 19/20 and is charted with open 93.10 and close 95.
C11_Witness ==
    /\ PlotReturned
    /\ \E i \in 1 .. Len(RowsOfCall) :
           /\ RowsOfCall[i].Close = 10000
           /\ RowsOfCall[i].AdjustedClose = 9500
           /\ RowsOfCall[i].Ratio = [num |-> 19, den |-> 20]
    /\ \E j \in 1 .. Len(last.plotted) :
           /\ last.plotted[j].Date = <<2020, 1, 2>>
           /\ last.plotted[j].Open = [num |-> 9310, den |-> 1]
           /\ last.plotted[j].Close = 9500
           /\ last.plotted[j].Volume = 135

-----------------------------------------------------------------------------
(* The news cache and the clock.                                           *)

\* Days the clock runs in SpecNews.
NewsHorizon == 2

TickNews == Tick(NewsHorizon)

NextNews == CallGetNews(CompanySymbols) \/ TickNews

SpecNews == Init /\ [][NextNews]_vars

\* The entries a cache file holds under a key.
EntriesOf(file, key) ==
    IF file.exists THEN {m[2] : m \in {x \in file.text : x[1] = key}} ELSE {}

\* The call just made was get_news_with_cache for a symbol the file had an
\* entry for.
NewsCallOnCached ==
    last.op = "get_news_with_cache" /\ EntriesOf(last.pre, last.key[1]) # {}

\* Days between that entry's Fetched and today.
NewsCallAge ==
    today - ToOrdinal((CHOOSE e \in EntriesOf(last.pre, last.key[1]) :
                           TRUE).Fetched)

\* C12: a get_news_with_cache call for a symbol whose entry was fetched
\* today issues no request, returns that entry and leaves the file as it
\* was; a call on a later day issues exactly one request and, when the
\* request returns, the file's entry for the symbol is the new payload with
\* Fetched = today (when it raises, the file is as it was).
C12_NewsOncePerDay ==
    NewsCallOnCached =>
        /\ NewsCallAge = 0 =>
               /\ last.nreq = 0
               /\ last.err = NoErr
               /\ {last.ret} = EntriesOf(last.pre, last.key[1])
               /\ news = last.pre
        /\ NewsCallAge >= 1 =>
               /\ last.nreq = 1
               /\ last.resp.kind = "json" =>
                      /\ last.err = NoErr
                      /\ EntriesOf(news, last.key[1])
                             = {[Fetched |-> FromOrdinal(today),
                                 News |-> last.resp.payload]}
                      /\ {last.ret} = EntriesOf(news, last.key[1])
               /\ last.resp.kind # "json" =>
                      last.err # NoErr /\ news = last.pre

\* An entry fetched yesterday has been fetched again and overwritten.
C12_Witness ==
    /\ NewsCallOnCached
    /\ NewsCallAge = 1
    /\ last.nreq = 1
    /\ last.err = NoErr
    /\ last.ret.Fetched = FromOrdinal(today)
    /\ EntriesOf(news, last.key[1]) = {last.ret}
    /\ EntriesOf(last.pre, last.key[1]) # {last.ret}

\* An entry fetched today has been served from the file.
C12_WitnessSameDay ==
    NewsCallOnCached /\ NewsCallAge = 0 /\ last.nreq = 0

-----------------------------------------------------------------------------
(* Company rows over time (SpecEPS: company and EPS calls, and the clock). *)

\* The step is a get_company_info_with_cache call for a symbol that has a
\* row in Companies.
CompanyCallOnCached ==
    /\ last'.op = "get_company_info_with_cache"
    /\ HasSymbol(companies, last'.key[1])

\* C13: no step changes or removes a row of Companies, and a
\* get_company_info_with_cache call for a symbol that has a row issues no
\* request, raises nothing, returns that one row and leaves the table as it
\* was, on whatever day it is made.
C13_CompanyRowIsPermanent ==
    [][/\ Len(companies') >= Len(companies)
       /\ \A i \in 1 .. Len(companies) : companies'[i] = companies[i]
       /\ CompanyCallOnCached =>
              /\ last'.nreq = 0
              /\ last'.err = NoErr
              /\ companies' = companies
              /\ last'.ret = RowsOf(companies, last'.key[1])
              /\ Len(last'.ret) = 1]_vars

\* A day after the start, a call for a symbol that has a row was answered
\* from the table although the upstream was unreachable.
C13_Witness ==
    /\ last.op = "get_company_info_with_cache"
    /\ HasSymbol(last.pre, last.key[1])
    /\ today > ToOrdinal(StartDate)
    /\ last.resp.kind = "transport"
    /\ last.nreq = 0
    /\ last.ret = RowsOf(companies, last.key[1])
    /\ Len(companies) = 2

-----------------------------------------------------------------------------
(* Price history and the clock.                                            *)

\* Days the clock runs in SpecHistClock.
HistHorizon == 2

TickHist == Tick(HistHorizon)

NextHistClock ==
    \/ CallGetHistory(CompanySymbols, HistYears, HistoryResponses)
    \/ TickHist

SpecHistClock == Init /\ [][NextHistClock]_vars

\* The call just made was get_history_with_cache for a symbol and year the
\* table held rows of.
HistoryCallOnCached ==
    /\ last.op = "get_history_with_cache"
    /\ HasSymbol(last.pre[last.key[2]], last.key[1])

\* C14: get_history_with_cache for a (symbol, year) whose History<year>
\* table holds at least one row of the symbol issues no request, changes no
\* History table and returns exactly the rows the table held for the
\* symbol, on whatever day it is called.
C14_CachedHistoryIsReturned ==
    HistoryCallOnCached =>
        /\ last.nreq = 0
        /\ last.err = NoErr
        /\ last.caught = NoErr
        /\ history = last.pre
        /\ last.ret = RowsOf(last.pre[last.key[2]], last.key[1])

\* Days after the start, a call for a year of which a single row is stored
\* returned that row although the upstream offered the whole series.
C14_Witness ==
    /\ HistoryCallOnCached
    /\ today > ToOrdinal(StartDate)
    /\ last.key[2] = 2020
    /\ last.resp = [kind |-> "series", series |-> SeriesFull]
    /\ last.nreq = 0
    /\ Len(last.ret) = 1
    /\ last.ret = RowsOf(history[2020], last.key[1])

-----------------------------------------------------------------------------
(* An earnings response with fewer than four quarters (SpecEPS).           *)

\* The call just made was get_eps_with_cache, it went upstream, and the
\* earnings response held fewer than four quarterly entries.
EpsCallOnShortList ==
    /\ last.op = "get_eps_with_cache"
    /\ last.nreq = 1
    /\ last.resp.kind = "earnings"
    /\ Len(last.resp.quarterlyEarnings) < 4

\* C15 as stated: when the earnings response holds fewer than four
\* quarterly entries, the condition is caught and logged, the EPS table has
\* no row for the symbol afterwards, and get_eps_with_cache raises nothing.
C15_ShortListIsCaught ==
    EpsCallOnShortList =>
        /\ last.err = NoErr
        /\ last.caught # NoErr
        /\ ~HasSymbol(eps, last.key[1])

-----------------------------------------------------------------------------
(* The JSON cache file as a register.                                      *)

\* The entries get_news builds: a fetch date and a payload.
CacheEntries ==
    {[Fetched |-> d, News |-> p] :
         d \in {StartDate, FromOrdinal(ToOrdinal(StartDate) + 1)},
         p \in {"articles", "error"}}

\* The mappings a caller saves: entries under some of the symbols.
CacheDicts == UNION {[S -> CacheEntries] : S \in SUBSET CompanySymbols}

\* The mapping most recently saved, <<>> when none was.
LastWritten == IF "written" \in DOMAIN last THEN last.written ELSE <<>>

\* A caller runs save_cache(cache_dict, NEWS_CACHE).
SaveCache ==
    \E d \in CacheDicts :
        /\ news' = save_cache(d)
        /\ last' = [op |-> "save_cache", key |-> <<>>, nreq |-> 0,
                    err |-> NoErr, ret |-> "none", pre |-> news,
                    written |-> <<d>>]
        /\ prev' = Brief(last)
        /\ UNCHANGED inflight
        /\ UNCHANGED <<today, clock, rates, etfs, companies, eps, history,
                       images, upload, csv, cum>>

\* A caller runs open_cache(NEWS_CACHE).
OpenCache ==
    /\ last' = [op |-> "open_cache", key |-> <<>>, nreq |-> 0,
                err |-> NoErr, ret |-> open_cache(news), pre |-> news,
                written |-> LastWritten]
    /\ prev' = Brief(last)
    /\ UNCHANGED inflight
    /\ UNCHANGED <<today, clock, rates, etfs, companies, eps, history, news,
                   images, upload, csv, cum>>

NextCache == SaveCache \/ OpenCache

SpecCache == Init /\ [][NextCache]_vars

C16_WitnessNoFile ==
    last.op = "open_cache" /\ ~last.pre.exists /\ last.ret = EmptyDict

-----------------------------------------------------------------------------
(* Ledgers posted one after another, and downloads.                        *)

\* The files the user posts here: the one-lot ledgers of two of the lots.
RepostUploads ==
    {u \in Uploads : Len(u) = 6 /\ u[3].Quantity \in {10, 2}}

\* The user chooses a file in the form of the index page.
ChooseFile(U) ==
    /\ upload = <<>>
    /\ upload' \in U
    /\ last' = [op |-> "choose", key |-> <<>>, nreq |-> 0, err |-> NoErr,
                ret |-> "none", pre |-> <<>>]
    /\ prev' = Brief(last)
    /\ UNCHANGED inflight
    /\ UNCHANGED <<today, clock, rates, etfs, companies, eps, history, news,
                   images, csv, cum>>

NextRepost ==
    \/ ChooseFile(RepostUploads)
    \/ Converted(Brokers, {"CNY"}, FxOracles)
    \/ Download

SpecRepost == Init /\ [][NextRepost]_vars

\* What a step does to files/converted.csv, told by the request it serves.
RegisterStep ==
    /\ (last'.op = "converted" /\ last'.err = NoErr) =>
           (csv'.exists /\ csv'.text = last'.ret)
    /\ (last'.op = "converted" /\ last'.err # NoErr) => csv' = csv
    /\ last'.op # "converted" => csv' = csv
    /\ last'.op = "download" =>
           /\ last'.ret = csv
           /\ (last'.err = NoErr) <=> csv.exists

\* C17: files/converted.csv does not exist at the start; a POST /converted
\* that completes leaves in it the ledger it showed; a POST /converted that
\* fails, and every other request, leaves it as it was; GET /download
\* returns it as it is and fails exactly when it does not exist.  So
\* /download always returns the ledger of the most recent conversion that
\* completed.
C17_DownloadIsLastConversion ==
    /\ ~csv.exists
    /\ [][RegisterStep]_vars

\* A download returned the MSFT ledger of 2019 after a conversion of the
\* AAPL ledger had failed at the rate of 2020-03-01.
C17_Witness ==
    /\ last.op = "download"
    /\ last.err = NoErr
    /\ last.ret = csv
    /\ csv.exists
    /\ csv.text[1].Symbol = "MSFT"
    /\ RateCached(rates["CNY"], <<2020, 1, 1>>)
    /\ ~RateCached(rates["CNY"], <<2020, 3, 1>>)

\* A download before any conversion completed has failed.
C17_WitnessNoFile ==
    last.op = "download" /\ last.err = "FileNotFoundError" /\ ~csv.exists

-----------------------------------------------------------------------------
(* Every fetch-or-cache function, one domain of stores at a time.          *)

\* The stores of a domain are as the program found them at the start.
FxUntouched == rates = [c \in Currencies |-> <<>>]

EtfUntouched == etfs = <<>>

CompanyUntouched == companies = <<>> /\ eps = <<>>

HistUntouched == history = [y \in Years |-> <<>>]

NewsUntouched == news = NoFile

\* The clock has not run past a domain's horizon.
Within(h) == today <= ToOrdinal(StartDate) + h

\* The six functions keep their data in stores of their own (the EPS fill
\* alone reads another's, Companies), so the calls of one domain are
\* followed with the other domains' stores left as they were, over the
\* days that domain's clock runs.
NextCalls ==
    \/ /\ EtfUntouched /\ CompanyUntouched /\ HistUntouched /\ NewsUntouched
       /\ Within(0)
       /\ NextFX
    \/ /\ FxUntouched /\ CompanyUntouched /\ HistUntouched /\ NewsUntouched
       /\ NextETF
    \/ /\ FxUntouched /\ EtfUntouched /\ HistUntouched /\ NewsUntouched
       /\ Within(EpsHorizon)
       /\ NextEPS
    \/ /\ FxUntouched /\ EtfUntouched /\ CompanyUntouched /\ NewsUntouched
       /\ Within(HistHorizon)
       /\ NextHistClock
    \/ /\ FxUntouched /\ EtfUntouched /\ CompanyUntouched /\ HistUntouched
       /\ Within(NewsHorizon)
       /\ NextNews

SpecCalls == Init /\ [][NextCalls]_vars

\* The fetch-or-cache functions of the six domains.
DomainCalls ==
    {"get_rates_with_cache", "get_all_ETFs_with_cache",
     "get_company_info_with_cache", "get_eps_with_cache",
     "get_history_with_cache", "get_news_with_cache"}

\* C18: a call of a fetch-or-cache function (exchange rates, ETF list,
\* company, EPS, price history, news) issues no upstream request or exactly
\* one, whether the request is answered, rate-limited or unanswered.
C18_AtMostOneRequest ==
    last.op \in DomainCalls => last.nreq \in {0, 1}

\* An EPS row past its age was deleted and the one request made for its
\* replacement was rate-limited: nothing was tried again.
C18_Witness ==
    /\ last.op = "get_eps_with_cache"
    /\ HasSymbol(last.pre, last.key[1])
    /\ last.resp.kind = "note"
    /\ last.nreq = 1
    /\ ~HasSymbol(eps, last.key[1])

\* A request that got no response was not made again.
C18_WitnessUnanswered ==
    /\ last.op \in DomainCalls
    /\ last.err = "ConnectionError"
    /\ last.nreq = 1

-----------------------------------------------------------------------------
(* A rate-limited price-history request (SpecHistClock).                   *)

\* The call just made was get_history_with_cache, it went upstream, and
\* the response had no "Time Series (Daily)".
HistoryCallRateLimited ==
    /\ last.op = "get_history_with_cache"
    /\ last.nreq = 1
    /\ last.resp.kind = "note"

\* The step is the next get_history_with_cache call for the same symbol
\* and year after such a call.
HistoryCalledAgain ==
    /\ HistoryCallRateLimited
    /\ last'.op = "get_history_with_cache"
    /\ last'.key = last.key

\* C19: a get_history_with_cache call whose response lacks "Time Series
\* (Daily)" raises nothing, leaves every History table as it was and
\* returns no rows; the symbol still has no row of that year, and the next
\* call for the same symbol and year issues a request.
C19_RateLimitedHistory ==
    /\ [](HistoryCallRateLimited =>
              /\ last.err = NoErr
              /\ last.caught = "KeyError"
              /\ history = last.pre
              /\ last.ret = <<>>
              /\ ~HasSymbol(history[last.key[2]], last.key[1]))
    /\ [][HistoryCalledAgain => last'.nreq = 1]_vars

\* A rate-limited call for one symbol has returned no rows and raised
\* nothing while the table of the year holds rows of the other symbol.
C19_Witness ==
    /\ HistoryCallRateLimited
    /\ last.ret = <<>>
    /\ last.err = NoErr
    /\ history = last.pre
    /\ Len(history[last.key[2]]) > 0

-----------------------------------------------------------------------------
(* The price-history chart and its placeholder (SpecPlot).                 *)

\* The files images/history*.png.
HistoryImages == {f \in images : f.prefix = "history"}

\* C20: when gen_plot_history returns, images/ holds one history image, the
\* one stamped by this call; it is the placeholder if and only if the
\* History table of the year holds no row of the symbol after the lookup,
\* and otherwise a chart drawn from as many rows as are stored.
C20_PlaceholderIffNoRows ==
    PlotReturned =>
        /\ Cardinality(HistoryImages) = 1
        /\ \A f \in HistoryImages :
               /\ f.ts = last.ts
               /\ f.content \in {"placeholder", "chart"}
               /\ f.content = "placeholder" <=> RowsOfCall = <<>>
               /\ f.content = "chart" =>
                      /\ Len(last.plotted) = Len(RowsOfCall)
                      /\ \A i \in 1 .. Len(last.plotted) :
                             \E j \in 1 .. Len(RowsOfCall) :
                                 last.plotted[i].Date = RowsOfCall[j].Date

\* The request was rate-limited and the placeholder was written, while the
\* table of the year holds rows of the other symbol.
C20_Witness ==
    /\ PlotReturned
    /\ last.resp.kind = "note"
    /\ last.nreq = 1
    /\ RowsOfCall = <<>>
    /\ Len(history[last.key[2]]) > 0
    /\ HistoryImages = {Image("history", last.ts, "placeholder")}

\* A chart was drawn from the one row stored before a bar without its
\* adjusted close ended the fill.
C20_WitnessChart ==
    /\ PlotReturned
    /\ last.caught = "KeyError"
    /\ Len(RowsOfCall) = 1
    /\ HistoryImages = {Image("history", last.ts, "chart")}

-----------------------------------------------------------------------------
(* Responses that lack an expected field (SpecCalls).                      *)

\* The functions that read a field of the upstream response.
FieldReaders ==
    {"get_rates_with_cache", "get_all_ETFs_with_cache",
     "get_company_info_with_cache", "get_eps_with_cache",
     "get_history_with_cache"}

\* C21 as stated: in every domain that reads a field of the response, the
\* KeyError a missing field raises is caught, so that no call of these
\* functions ends with it.
C21_MissingFieldIsCaught ==
    last.op \in FieldReaders => last.err # "KeyError"

-----------------------------------------------------------------------------
(* The analysis page without an EPS record (SpecStore).                    *)

\* The request just served was /analysis/<symbol> for a symbol that is no
\* ETF; it went as far as the EPS request, and the EPS table has no row of
\* the symbol afterwards.
AnalysisWithoutEps ==
    /\ last.op = "analysis"
    /\ ~HasSymbol(etfs, last.key[1])
    /\ last.reqs.eps = 1
    /\ ~HasSymbol(eps, last.key[1])

\* C22 as stated: when no EPS row is available for a symbol that is no ETF
\* after the fetch attempt, the /analysis/<symbol> request completes and
\* renders its page.
C22_PageWithoutEps ==
    AnalysisWithoutEps => (last.err = NoErr /\ last.ret = "page")

-----------------------------------------------------------------------------
(* Two requests looking up exchange rates at the same time.                *)

\* The handler of request p has returned from the call, or raised.
Done(op, key, nreq, err, ret) ==
    [pc |-> "done", op |-> op, key |-> key, nreq |-> nreq, err |-> err,
     ret |-> ret]

\* get_rates_with_cache up to its presence test: df = load_table_currency;
\* on a hit the rate is returned, on a miss the request is about to be made.
FxBegin(P, C, D) ==
    \E p \in P, c \in C, d \in D :
        /\ inflight[p].pc \in {"idle", "done"}
        /\ inflight' = [inflight EXCEPT ![p] =
               IF RateCached(rates[c], d)
               THEN Done("get_rates_with_cache", <<c, d>>, 0, NoErr,
                         RateOf(rates[c], d))
               ELSE [pc |-> "request", op |-> "get_rates_with_cache",
                     key |-> <<c, d>>]]
        /\ UNCHANGED <<today, clock, rates, etfs, companies, eps, history,
                       news, images, upload, csv, cum, last, prev>>

\* response = get_rates_for(currency, date) and response["rates"][currency]:
\* the rate is in hand, or the call has raised.
FxRespond(P, R) ==
    \E p \in P, resp \in R :
        /\ inflight[p].pc = "request"
        /\ inflight[p].op = "get_rates_with_cache"
        /\ inflight' = [inflight EXCEPT ![p] =
               IF resp.kind = "transport"
               THEN Done(@.op, @.key, 1, "ConnectionError", "raised")
               ELSE IF resp.kind = "nokey"
               THEN Done(@.op, @.key, 1, "KeyError", "raised")
               ELSE [pc |-> "insert", op |-> @.op, key |-> @.key,
                     rate |-> resp.rate]]
        /\ UNCHANGED <<today, clock, rates, etfs, companies, eps, history,
                       news, images, upload, csv, cum, last, prev>>

\* insert_rate(conn, currency, date, rate), committed at once, then the
\* table loaded again and the rate of the date returned.
FxInsert(P) ==
    \E p \in P :
        /\ inflight[p].pc = "insert"
        /\ inflight[p].op = "get_rates_with_cache"
        /\ \E ins \in {insert_rate(rates[inflight[p].key[1]],
                                    inflight[p].key[2], inflight[p].rate)} :
               /\ rates' = [rates EXCEPT ![inflight[p].key[1]] = ins.tbl]
               /\ inflight' = [inflight EXCEPT ![p] =
                      IF ins.err # NoErr
                      THEN Done(@.op, @.key, 1, ins.err, "raised")
                      ELSE Done(@.op, @.key, 1, NoErr,
                                RateOf(ins.tbl, @.key[2]))]
        /\ UNCHANGED <<today, clock, etfs, companies, eps, history, news,
                       images, upload, csv, cum, last, prev>>

NextRaceFX ==
    \/ FxBegin(Requests, {"CNY"}, FxDates)
    \/ FxRespond(Requests, FxResponses)
    \/ FxInsert(Requests)

SpecRaceFX == Init /\ [][NextRaceFX]_vars

\* Request p has been through get_rates_with_cache for the key, missed,
\* got a rate from upstream and attempted its insert.
FetchedAndInserted(p, key) ==
    /\ inflight[p].pc = "done"
    /\ inflight[p].op = "get_rates_with_cache"
    /\ inflight[p].key = key
    /\ inflight[p].nreq = 1
    /\ inflight[p].err \notin {"ConnectionError", "KeyError"}

\* Both requests missed the same (currency, date), both fetched, and the
\* insert of one was refused as a duplicate while the other's row stands.
BothFetched(key) ==
    FetchedAndInserted(1, key) /\ FetchedAndInserted(2, key)

\* C23: nothing keeps two requests from both missing the same (currency,
\* date) and both fetching it; whenever that has happened, one of the two
\* inserts was refused with the duplicate-key error, the other request
\* returned its rate, and the table holds one row of the date.
C23_DuplicateKeyRace ==
    \A c \in Currencies, d \in FxDates :
        BothFetched(<<c, d>>) =>
            /\ {inflight[1].err, inflight[2].err} = {NoErr, "IntegrityError"}
            /\ Len(SelectSeq(rates[c], LAMBDA r : r.Date = d)) = 1

\* The two requests fetched the rate of 2020-01-01 and the second insert
\* failed.
C23_Witness ==
    /\ BothFetched(<<"CNY", <<2020, 1, 1>>>>)
    /\ inflight[1].err = NoErr
    /\ inflight[2].err = "IntegrityError"
    /\ Len(rates["CNY"]) = 1

-----------------------------------------------------------------------------
(* Two requests reading news at the same time.                             *)

\* get_news_with_cache up to its tests: cache_dict = open_cache(NEWS_CACHE);
\* an entry of today is returned, otherwise the request is about to be made
\* with the mapping just loaded in hand.
NewsBegin(P, S) ==
    \E p \in P, sym \in S :
        /\ inflight[p].pc \in {"idle", "done"}
        /\ inflight' = [inflight EXCEPT ![p] =
               IF sym \in DOMAIN open_cache(news)
                      /\ today - ToOrdinal(open_cache(news)[sym].Fetched)
                             < NewsMaxAge
               THEN Done("get_news_with_cache", <<sym>>, 0, NoErr,
                         open_cache(news)[sym])
               ELSE [pc |-> "request", op |-> "get_news_with_cache",
                     key |-> <<sym>>, cache_dict |-> open_cache(news)]]
        /\ UNCHANGED <<today, clock, rates, etfs, companies, eps, history,
                       news, images, upload, csv, cum, last, prev>>

\* get_news(symbol): the entry is in hand, or the call has raised.
NewsRespond(P, R) ==
    \E p \in P, resp \in R :
        /\ inflight[p].pc = "request"
        /\ inflight[p].op = "get_news_with_cache"
        /\ \E g \in {get_news(inflight[p].key[1], resp, today)} :
               inflight' = [inflight EXCEPT ![p] =
                   IF g.err # NoErr
                   THEN Done(@.op, @.key, 1, g.err, "raised")
                   ELSE [pc |-> "save", op |-> @.op, key |-> @.key,
                         cache_dict |-> @.cache_dict, entry |-> g.entry]]
        /\ UNCHANGED <<today, clock, rates, etfs, companies, eps, history,
                       news, images, upload, csv, cum, last, prev>>

\* cache_dict[symbol] = entry; save_cache(cache_dict, NEWS_CACHE); return
\* cache_dict[symbol].
NewsSave(P) ==
    \E p \in P :
        /\ inflight[p].pc = "save"
        /\ inflight[p].op = "get_news_with_cache"
        /\ news' = save_cache(DictPut(inflight[p].cache_dict,
                                      inflight[p].key[1], inflight[p].entry))
        /\ inflight' = [inflight EXCEPT ![p] =
               Done(@.op, @.key, 1, NoErr, @.entry)]
        /\ UNCHANGED <<today, clock, rates, etfs, companies, eps, history,
                       images, upload, csv, cum, last, prev>>

NextRaceNews ==
    \/ NewsBegin(Requests, CompanySymbols)
    \/ NewsRespond(Requests, NewsResponses)
    \/ NewsSave(Requests)

SpecRaceNews == Init /\ [][NextRaceNews]_vars

\* Request p saves in this step.
Saves(p) == inflight[p].pc = "save" /\ inflight'[p].pc = "done"

\* The file after the step holds what request p loaded, with p's own entry
\* under p's symbol, and nothing else.
WritesOwnCopy(p) ==
    /\ news'.exists
    /\ {m[1] : m \in news'.text}
           = DOMAIN inflight[p].cache_dict \cup {inflight[p].key[1]}
    /\ EntriesOf(news', inflight[p].key[1]) = {inflight[p].entry}
    /\ \A k \in DOMAIN inflight[p].cache_dict \ {inflight[p].key[1]} :
           EntriesOf(news', k) = {inflight[p].cache_dict[k]}

\* Request p has fetched and saved an entry for the symbol and returned.
SavedEntry(p, sym) ==
    /\ inflight[p].pc = "done"
    /\ inflight[p].op = "get_news_with_cache"
    /\ inflight[p].key = <<sym>>
    /\ inflight[p].nreq = 1
    /\ inflight[p].err = NoErr

\* C24: a get_news_with_cache call that saves writes the whole file from
\* the mapping it loaded at its start plus its own entry, whatever the file
\* holds by then; so an entry another request saved in between is gone.
C24_WholeFileWrittenBack ==
    [][\A p \in Requests : Saves(p) => WritesOwnCopy(p)]_vars

\* Both requests fetched and saved their entries, and the one saved for
\* AAPL is not in the file.
C24_Witness ==
    /\ SavedEntry(1, "AAPL")
    /\ SavedEntry(2, "CVS")
    /\ EntriesOf(news, "AAPL") = {}
    /\ EntriesOf(news, "CVS") = {inflight[2].ret}

-----------------------------------------------------------------------------
(* The two branches of the analysis route (SpecStore).                     *)

\* The step serves /analysis/<symbol>.
AnalysisStep == last'.op = "analysis"

\* The symbol of the request is in the ETF table the handler loaded.
IsEtfRequest == HasSymbol(etfs', last'.key[1])

\* For an ETF: no company or EPS request, both tables as they were.
EtfBranch ==
    /\ last'.reqs.company = 0
    /\ last'.reqs.eps = 0
    /\ companies' = companies
    /\ eps' = eps

\* For a symbol that is no ETF, when the page was rendered: the company
\* and the EPS row were looked up, with a request for each that was not in
\* its table.
CompanyBranch ==
    /\ HasSymbol(companies', last'.key[1])
    /\ HasSymbol(eps', last'.key[1])
    /\ ~HasSymbol(companies, last'.key[1]) => last'.reqs.company = 1
    /\ ~HasSymbol(eps, last'.key[1]) => last'.reqs.eps = 1

\* C25: an /analysis request for a symbol in the ETF table issues no
\* company and no EPS request and leaves Companies and EPS unchanged; a
\* request for a symbol not in it that renders its page has performed the
\* company lookup and the EPS lookup.
C25_BranchOnEtfMembership ==
    [][AnalysisStep =>
          /\ IsEtfRequest => EtfBranch
          /\ (~IsEtfRequest /\ last'.err = NoErr) => CompanyBranch]_vars

\* A page was rendered for the ETF SPY without a company or EPS request,
\* the tables holding AAPL's rows only.
C25_Witness ==
    /\ last.op = "analysis"
    /\ last.key = <<"SPY">>
    /\ last.err = NoErr
    /\ HasSymbol(etfs, "SPY")
    /\ last.reqs.company = 0
    /\ last.reqs.eps = 0
    /\ HasSymbol(companies, "AAPL") /\ ~HasSymbol(companies, "SPY")
    /\ HasSymbol(eps, "AAPL") /\ ~HasSymbol(eps, "SPY")

\* A page was rendered for AAPL, no ETF, with a company and an EPS request.
C25_WitnessCompany ==
    /\ last.op = "analysis"
    /\ last.key = <<"AAPL">>
    /\ last.err = NoErr
    /\ ~HasSymbol(etfs, "AAPL")
    /\ last.reqs.company = 1
    /\ last.reqs.eps = 1

-----------------------------------------------------------------------------
(* Analysis requests one after another, at different times of the day.     *)

\* The latest second of the day a request is stamped with.
LastSecond == 2

NextCharts ==
    Analysis(RouteSymbols, 0 .. LastSecond, RouteEtfResponses,
             RouteNewsResponses, RouteHistoryResponses,
             RouteCompanyResponses, RouteEpsResponses)

SpecCharts == Init /\ [][NextCharts]_vars

\* C26: after an /analysis request that rendered its page, images/ holds
\* exactly one history*.png, the one named with the request's timestamp.
C26_OneHistoryChart ==
    (last.op = "analysis" /\ last.err = NoErr) =>
        /\ Cardinality(HistoryImages) = 1
        /\ \A f \in HistoryImages : f.ts = last.ts

\* A page rendered at second 2 left one history chart, stamped 2, while the
\* EPS chart of a request served at second 0 is still there.
C26_Witness ==
    /\ last.op = "analysis"
    /\ last.err = NoErr
    /\ last.ts[2] = 2
    /\ \E f \in HistoryImages : f.ts = last.ts
    /\ \E g \in images : g.prefix = "eps" /\ g.ts[2] = 0
    /\ Cardinality(HistoryImages) = 1

-----------------------------------------------------------------------------
(* clean_eps on the rows the EPS table may hold.                           *)

\* The amounts, in cents, a quarter of a stored row may carry.
EpsAmounts == {56, 64}

\* The four quarters of a stored row, newest first as insert_eps stores
\* them, each with any of the amounts as reported and as expected EPS.
StoredQuarters ==
    {<< Quarter(<<2020, 12, 31>>, r[1], e[1]),
        Quarter(<<2020, 9, 30>>, r[2], e[2]),
        Quarter(<<2020, 6, 30>>, r[3], e[3]),
        Quarter(<<2020, 3, 31>>, r[4], e[4]) >> :
         r \in [1 .. 4 -> EpsAmounts], e \in [1 .. 4 -> EpsAmounts]}

\* The database holds the company AAPL and one EPS row of it.
InitCleanEps ==
    /\ today = ToOrdinal(StartDate)
    /\ clock = 0
    /\ rates = [c \in Currencies |-> <<>>]
    /\ etfs = <<>>
    /\ companies = insert_company(<<>>, "AAPL", "Apple Inc", "NASDAQ").tbl
    /\ eps \in {<<[Symbol |-> "AAPL", Q |-> q, LastUpdate |-> StartDate]>> :
                    q \in StoredQuarters}
    /\ history = [y \in Years |-> <<>>]
    /\ news = NoFile
    /\ images = {}
    /\ csv = NoFile
    /\ cum = NoPlot
    /\ last = NoCall
    /\ prev = Brief(NoCall)
    /\ inflight = [p \in Requests |-> Idle]
    /\ upload = <<>>

NextCleanEps == CallCleanEps(CompanySymbols)

SpecCleanEps == InitCleanEps /\ [][NextCleanEps]_vars

\* The call was made on one wide row.
CleanEpsOnOneRow == last.op = "clean_eps" /\ Len(last.pre) = 1

\* The long table has a row (date, amount, type).
HasLongRow(date, amount, type) ==
    \E i \in 1 .. Len(last.ret) :
        last.ret[i] = [EPS |-> amount, Type |-> type, Date |-> date]

\* C27: clean_eps turns one wide EPS row into a long table of exactly 8
\* rows: for each quarter i in 1..4 one row (EPSiDate, EPSiReported,
\* Reported) and one row (EPSiDate, EPSiExpected, Expected), sorted by type
\* and then by date.
C27_EightRowsPerQuarter ==
    CleanEpsOnOneRow =>
        /\ last.err = NoErr
        /\ Len(last.ret) = 8
        /\ \A i \in 1 .. 4 :
               LET q == last.pre[1].Q[i]
               IN  /\ HasLongRow(q.fiscalDateEnding, q.reportedEPS,
                                 "Reported")
                   /\ HasLongRow(q.fiscalDateEnding, q.estimatedEPS,
                                 "Expected")
        /\ \A i \in 1 .. 7 : ~LongBefore(last.ret[i + 1], last.ret[i])

-----------------------------------------------------------------------------
(* The order of the converted ledger.                                      *)

\* The lines of the posted file that are lots, in the order of the file.
PostedLots == SubSeq(last.posted, 3, Len(last.posted) - 3)

\* The row of the ledger is the lot: its symbol, quantity and amounts, and
\* its dates as year-month-day.
RowIsLot(row, lot) ==
    /\ row.Symbol = lot.Symbol
    /\ row.Quantity = lot.Quantity
    /\ row.Date_Acquired = <<lot.Date_Acquired[3], lot.Date_Acquired[1],
                             lot.Date_Acquired[2]>>
    /\ row.Date_Sold = <<lot.Date_Sold[3], lot.Date_Sold[1],
                         lot.Date_Sold[2]>>
    /\ row.Cost = ParseFloat(clean_dollar_to_float(lot.Cost))
    /\ row.Sales = ParseFloat(clean_dollar_to_float(lot.Sales_Proceeds))

\* The rows are the lots, each lot once.
PermutationOfLots(rows, lots) ==
    /\ Len(rows) = Len(lots)
    /\ \E f \in [1 .. Len(rows) -> 1 .. Len(lots)] :
           /\ \A i, j \in 1 .. Len(rows) : f[i] = f[j] => i = j
           /\ \A i \in 1 .. Len(rows) : RowIsLot(rows[i], lots[f[i]])

\* Symbols ascend, and within a symbol the disposal dates.
OrderedBySymbolAndDate(rows) ==
    \A i, j \in 1 .. Len(rows) :
        i < j =>
            /\ SymbolRank(rows[i].Symbol) <= SymbolRank(rows[j].Symbol)
            /\ rows[i].Symbol = rows[j].Symbol =>
                   ToOrdinal(rows[i].Date_Sold) <= ToOrdinal(rows[j].Date_Sold)

\* C28: the converted ledger returned by convert_transaction_history is a
\* permutation of the input lots, ordered by symbol and then by disposal
\* date, ascending in time.
C28_LedgerIsSortedPermutation ==
    ConvertedOk =>
        /\ PermutationOfLots(last.ret, PostedLots)
        /\ OrderedBySymbolAndDate(last.ret)

\* A file that lists MSFT before AAPL was converted: the ledger shows AAPL
\* first.
C28_Witness ==
    /\ ConvertedOk
    /\ Len(PostedLots) = 2
    /\ PostedLots[1].Symbol = "MSFT"
    /\ PostedLots[2].Symbol = "AAPL"
    /\ last.ret[1].Symbol = "AAPL"
    /\ last.ret[1].Index = 2

\* A file that lists a lot of AAPL sold in December before one sold in
\* March was converted: the ledger shows the lot sold in March first.
C28_WitnessDates ==
    /\ ConvertedOk
    /\ Len(PostedLots) = 2
    /\ PostedLots[1].Symbol = "AAPL"
    /\ PostedLots[2].Symbol = "AAPL"
    /\ PostedLots[1].Date_Sold = <<12, 31, 2020>>
    /\ PostedLots[2].Date_Sold = <<3, 1, 2020>>
    /\ last.ret[1].Date_Sold = <<2020, 3, 1>>

-----------------------------------------------------------------------------
(* The rows of the exchange-rate tables over a sequence of lookups.        *)

\* No two rows of a currency's table have the same date.
OneRowPerDate ==
    \A c \in Currencies :
        \A i, j \in 1 .. Len(rates[c]) :
            rates[c][i].Date = rates[c][j].Date => i = j

\* The step keeps every row of the currency's table as it was.
RowsKept(c) ==
    /\ Len(rates'[c]) >= Len(rates[c])
    /\ SubSeq(rates'[c], 1, Len(rates[c])) = rates[c]

\* The step is a lookup for the currency that found no row of its date,
\* made its request and added the one row of that date.
AddedOnMiss(c) ==
    /\ last'.op = "get_rates_with_cache"
    /\ last'.key[1] = c
    /\ last'.nreq = 1
    /\ \A i \in 1 .. Len(rates[c]) : rates[c][i].Date # last'.key[2]
    /\ Len(rates'[c]) = Len(rates[c]) + 1
    /\ rates'[c][Len(rates'[c])].Date = last'.key[2]

FxStep ==
    \A c \in Currencies :
        /\ RowsKept(c)
        /\ rates'[c] # rates[c] => AddedOnMiss(c)

\* C29: exchange-rate rows are append-only.  Across any sequence of FX
\* lookups there is at most one row per (currency, date); a row once stored
\* is never modified or deleted; a new row is added only on a cache miss;
\* and a lookup for one currency leaves the tables of all other currencies
\* unchanged.
C29_RatesAppendOnly == []OneRowPerDate /\ [][FxStep]_vars

\* Both dates of CNY and one of AUD are stored, the last lookup added the
\* second row of CNY, and the lookup before it was a hit that added nothing.
C29_Witness ==
    /\ last.op = "get_rates_with_cache"
    /\ last.key[1] = "CNY"
    /\ last.nreq = 1
    /\ last.err = NoErr
    /\ Len(last.pre) = 1
    /\ Len(rates["CNY"]) = 2
    /\ Len(rates["AUD"]) = 1
    /\ prev.op = "get_rates_with_cache"
    /\ prev.nreq = 0

-----------------------------------------------------------------------------
(* Price history by year.                                                  *)

\* The call just made was get_history_with_cache.
HistoryCall == last.op = "get_history_with_cache"

\* The call found no row of the symbol in the year's table and its request
\* came back with a time series.
HistoryCallFetched ==
    /\ HistoryCall
    /\ ~HasSymbol(last.pre[last.key[2]], last.key[1])
    /\ last.resp.kind = "series"

\* The entries of the series whose date starts with the year, in the order
\* of the series.
EntriesOfYear(series, y) == SelectSeq(series, LAMBDA e : YearOf(e[1]) = y)

\* The entry has every field a row is made of, and a close to divide by.
EntryComplete(e) ==
    /\ \A f \in {"open", "high", "low", "close", "volume", "adjusted"} :
           ~Lacks(e[2], f)
    /\ e[2].close # 0

\* The entries before the first one that is not complete.
CompletePrefix(es) ==
    SubSeq(es, 1,
           Cardinality({i \in 1 .. Len(es) :
                           \A j \in 1 .. i : EntryComplete(es[j])}))

\* The rows the call added to the table of year y.
RowsAdded(y) == SubSeq(history[y], Len(last.pre[y]) + 1, Len(history[y]))

\* The rows are the entries, one row per entry in the same order, under the
\* symbol of the call.
RowsAreEntries(rows, es) ==
    /\ Len(rows) = Len(es)
    /\ \A i \in 1 .. Len(es) :
           /\ rows[i].Date = es[i][1]
           /\ rows[i].Symbol = last.key[1]
           /\ rows[i].Open = es[i][2].open
           /\ rows[i].High = es[i][2].high
           /\ rows[i].Low = es[i][2].low
           /\ rows[i].Close = es[i][2].close
           /\ rows[i].Volume = es[i][2].volume
           /\ rows[i].AdjustedClose = es[i][2].adjusted

\* Every table keeps the rows it had, and the tables of the years that were
\* not asked for are as they were.
OnlyTheYearGrows ==
    /\ \A z \in Years :
           /\ Len(history[z]) >= Len(last.pre[z])
           /\ SubSeq(history[z], 1, Len(last.pre[z])) = last.pre[z]
    /\ \A z \in Years \ {last.key[2]} : history[z] = last.pre[z]

\* Every row of History<z> has a date in year z.
RowsInTheirYear ==
    \A z \in Years :
        \A i \in 1 .. Len(history[z]) : YearOf(history[z][i].Date) = z

\* C30 as stated: get_history_with_cache(symbol, Y) that fetches a series
\* inserts exactly the upstream entries whose date starts with Y, all into
\* History<Y>; every row of History<Y> has a date in year Y and no other
\* year's table is modified.
C30_AsStated ==
    /\ RowsInTheirYear
    /\ HistoryCall => OnlyTheYearGrows
    /\ HistoryCallFetched =>
           RowsAreEntries(RowsAdded(last.key[2]),
                          EntriesOfYear(last.resp.series, last.key[2]))

\* C30, amended: get_history_with_cache(symbol, Y) that fetches a series
\* inserts the upstream entries whose date starts with Y into History<Y>,
\* in the order of the series, up to the first such entry that cannot be
\* inserted (all of them when every one is complete); a call that finds
\* the symbol cached or gets no series inserts nothing.  Every row of
\* History<Y> has a date in year Y and no other year's table is modified.
C30_HistoryPartitionedByYear ==
    /\ RowsInTheirYear
    /\ HistoryCall => OnlyTheYearGrows
    /\ HistoryCallFetched =>
           RowsAreEntries(RowsAdded(last.key[2]),
               CompletePrefix(EntriesOfYear(last.resp.series, last.key[2])))
    /\ (HistoryCall /\ ~HistoryCallFetched) => RowsAdded(last.key[2]) = <<>>

\* The series of 2019 to 2021 was fetched for 2020 while History2019 and
\* History2020 held rows: the two entries of 2020 were added to History2020
\* and History2019 is as it was.
C30_Witness ==
    /\ HistoryCallFetched
    /\ last.key[2] = 2020
    /\ last.resp.series = SeriesFull
    /\ Len(last.pre[2019]) > 0
    /\ Len(last.pre[2020]) > 0
    /\ Len(RowsAdded(2020)) = 2
    /\ history[2019] = last.pre[2019]

\* The series whose second entry of 2020 lacks a field was fetched for
\* 2020: the first entry alone was added.
C30_WitnessStopped ==
    /\ HistoryCallFetched
    /\ last.key[2] = 2020
    /\ last.resp.series = SeriesBad
    /\ Len(RowsAdded(2020)) = 1
    /\ Len(EntriesOfYear(last.resp.series, 2020)) = 2

-----------------------------------------------------------------------------
(* Error payloads in the news cache.                                       *)

\* The call just made was get_news_with_cache and its request came back
\* with a payload.
NewsCallFetched ==
    /\ last.op = "get_news_with_cache"
    /\ last.nreq = 1
    /\ last.resp.kind = "json"

\* The call just made was get_news_with_cache for a symbol whose entry in
\* the file was fetched today and holds an error payload.
NewsCallOnTodaysError ==
    /\ last.op = "get_news_with_cache"
    /\ EntriesOf(last.pre, last.key[1])
           = {[Fetched |-> FromOrdinal(today), News |-> "error"]}

\* C31: the news cache stores whatever payload the upstream returned,
\* wrapped with the fetch date and without validation: an error payload is
\* stored like a valid one, and a call made on the day it was fetched is
\* served the stored error payload with no request and leaves the file as
\* it was.
C31_ErrorPayloadIsCached ==
    /\ NewsCallFetched =>
           /\ last.err = NoErr
           /\ last.ret = [Fetched |-> FromOrdinal(today),
                          News |-> last.resp.payload]
           /\ EntriesOf(news, last.key[1]) = {last.ret}
    /\ NewsCallOnTodaysError =>
           /\ last.nreq = 0
           /\ last.err = NoErr
           /\ last.ret = [Fetched |-> FromOrdinal(today), News |-> "error"]
           /\ news = last.pre

\* An error payload fetched on the second day was served again on that day,
\* to a call that would have received articles had it asked.
C31_Witness ==
    /\ NewsCallOnTodaysError
    /\ today = ToOrdinal(StartDate) + 1
    /\ last.resp.kind = "json"
    /\ last.resp.payload = "articles"
    /\ last.nreq = 0
    /\ last.ret.News = "error"
    /\ last.ret.Fetched = FromOrdinal(ToOrdinal(StartDate) + 1)
    /\ news = last.pre

-----------------------------------------------------------------------------
(* A stale EPS row whose refetch fails.                                    *)

\* The call just made was get_eps_with_cache for a symbol whose row was 10
\* or more days old, and its request brought no row: a rate-limit note, no
\* response, or earnings no row could be made of.
EpsRefetchFailed ==
    /\ EpsCallOnCached
    /\ EpsCallAge >= EpsMaxAge
    /\ (last.err # NoErr \/ last.caught # NoErr)

C32_WitnessTransport ==
    /\ EpsRefetchFailed
    /\ last.resp.kind = "transport"
    /\ last.err = "ConnectionError"
    /\ HasSymbol(last.pre, last.key[1])
    /\ ~HasSymbol(eps, last.key[1])

-----------------------------------------------------------------------------
(* An ETF refill that stops part way.                                      *)

\* What the list request comes back with here: a list of MaxEtfList
\* entries, or no response.
RefillResponses ==
    {r \in EtfResponses :
        \/ r.kind = "transport"
        \/ r.kind = "list" /\ Len(r.list) = MaxEtfList}

CallRefill == CallGetAllETFs /\ last'.resp \in RefillResponses

NextEtfRefill == CallRefill \/ Midnight(EtfHorizon)

SpecEtfRefill == Init /\ [][NextEtfRefill]_vars

\* The call just made requested the list, received one and stopped with an
\* error.
EtfFillStopped ==
    /\ last.op = "get_all_ETFs_with_cache"
    /\ last.nreq = 1
    /\ last.resp.kind = "list"
    /\ last.err # NoErr

\* Entry k + 1 of the list cannot be inserted after the k before it: it
\* lacks a field or repeats one of their symbols.
StopsAfter(list, k) ==
    /\ k < Len(list)
    /\ \/ \E f \in {"symbol", "name", "exchange"} : Lacks(list[k + 1], f)
       \/ \E i \in 1 .. k : list[i].symbol = list[k + 1].symbol

\* The table holds the first k entries of the list, dated the day of the
\* call.
HoldsFirst(list, k) ==
    /\ Len(etfs) = k
    /\ \A i \in 1 .. k :
           etfs[i] = [Symbol |-> list[i].symbol, Name |-> list[i].name,
                      Exchange |-> list[i].exchange,
                      LastUpdate |-> FromOrdinal(LastFill.day)]

\* The rows inserted before the error are in the table.
StoppedFillStays ==
    EtfFillStopped =>
        /\ StopsAfter(last.resp.list, Len(etfs))
        /\ HoldsFirst(last.resp.list, Len(etfs))

\* The most recent request for the list stopped with an error after one
\* row or more, fewer than 30 days ago.
PartialAndRecent ==
    /\ LastFill.err # NoErr
    /\ LastFill.rows >= 1
    /\ today - LastFill.day < EtfMaxAge

\* A call made while the table is such a partial one makes no request and
\* leaves the table as it is.
PartialServedAsFresh ==
    (PartialAndRecent /\ today' = today /\ last' # last) =>
        /\ last'.op = "get_all_ETFs_with_cache"
        /\ last'.nreq = 0
        /\ last'.err = NoErr
        /\ etfs' = etfs
        /\ Len(etfs) = LastFill.rows

C33_WitnessStopped ==
    /\ EtfFillStopped
    /\ last.err = "IntegrityError"
    /\ Len(last.pre) > 0
    /\ Len(etfs) = 1
    /\ today = LastFill.day
    /\ etfs[1].LastUpdate = FromOrdinal(today)

-----------------------------------------------------------------------------
(* A price-history loop that stops part way.                               *)

\* The call just made fetched a series and its loop stopped on an entry of
\* the year that lacks a field, which was caught as the call limit.
HistoryLoopStopped ==
    /\ HistoryCallFetched
    /\ last.caught = "KeyError"

\* The days of year y the series offers and the table has no row of the
\* symbol for.
MissingDays(tbl, symbol, series, y) ==
    {d \in {series[i][1] : i \in 1 .. Len(series)} :
        /\ YearOf(d) = y
        /\ \A j \in 1 .. Len(tbl) : tbl[j].Symbol = symbol => tbl[j].Date # d}

\* The rows inserted before the loop stopped are in the table, and the
\* entry that stopped it and those after it are not.
StoppedLoopStays ==
    HistoryLoopStopped =>
        /\ last.err = NoErr
        /\ RowsAreEntries(RowsAdded(last.key[2]),
               CompletePrefix(EntriesOfYear(last.resp.series, last.key[2])))
        /\ MissingDays(history[last.key[2]], last.key[1], last.resp.series,
                       last.key[2]) # {}

\* No step removes or changes a row of a History table.
HistoryRowsStay ==
    \A z \in Years :
        /\ Len(history'[z]) >= Len(history[z])
        /\ SubSeq(history'[z], 1, Len(history[z])) = history[z]

\* The step is a get_history_with_cache call for a symbol and year of which
\* the table holds rows, but not of every day the upstream now offers.
HistoryCallOnPartial ==
    /\ last'.op = "get_history_with_cache"
    /\ last' # last
    /\ HasSymbol(history[last'.key[2]], last'.key[1])
    /\ last'.resp.kind = "series"
    /\ MissingDays(history[last'.key[2]], last'.key[1], last'.resp.series,
                   last'.key[2]) # {}

PartialHistoryStep ==
    /\ HistoryRowsStay
    /\ HistoryCallOnPartial =>
           /\ last'.nreq = 0
           /\ history' = history
           /\ last'.ret = RowsOf(history[last'.key[2]], last'.key[1])

\* C34: price-history insertion is not atomic.  If the fetch loop stops
\* after inserting some rows of the year (an entry missing a field is
\* caught as rate limit), the rows inserted so far stay committed, and
\* every later call for the same (symbol, year) treats the symbol as fully
\* cached and never fetches the missing days.
C34_PartialHistoryStays == []StoppedLoopStays /\ [][PartialHistoryStep]_vars

\* On a later day a call for 2020 was offered the full series for a symbol
\* of which only the row of 2020-12-31 is stored, made no request and
\* returned that row, while the other symbol has both rows of 2020.
C34_Witness ==
    /\ last.op = "get_history_with_cache"
    /\ today > ToOrdinal(StartDate)
    /\ last.key[2] = 2020
    /\ last.resp.kind = "series"
    /\ last.resp.series = SeriesFull
    /\ last.nreq = 0
    /\ MissingDays(history[2020], last.key[1], SeriesFull, 2020)
           = {<<2020, 1, 2>>}
    /\ Len(last.ret) = 1
    /\ last.ret[1].Date = <<2020, 12, 31>>
    /\ Len(history[2020]) = 3

\* The loop for 2020 has stopped on the entry of 2020-01-02 with the row of
\* 2020-12-31 inserted.
C34_WitnessStopped ==
    /\ HistoryLoopStopped
    /\ last.key[2] = 2020
    /\ Len(last.ret) = 1
    /\ last.ret[1].Date = <<2020, 12, 31>>
    /\ MissingDays(history[2020], last.key[1], last.resp.series, 2020)
           = {<<2020, 1, 2>>}

-----------------------------------------------------------------------------
(* The company row before the EPS row, in an /analysis request.            *)

\* The request asked for the earnings or changed the EPS table.
EpsTouched == last'.reqs.eps > 0 \/ eps' # eps

\* The request asked for the company and no row came of it.
CompanyLookupFailed ==
    /\ last'.reqs.company = 1
    /\ ~HasSymbol(companies', last'.key[1])

\* An /analysis request for a symbol that is no ETF.
CompanyBeforeEps ==
    (AnalysisStep /\ ~IsEtfRequest) =>
        /\ EpsTouched =>
               /\ HasSymbol(companies', last'.key[1])
               /\ \A i \in 1 .. Len(eps') :
                      HasSymbol(companies', eps'[i].Symbol)
        /\ CompanyLookupFailed =>
               /\ last'.err # NoErr
               /\ last'.reqs.eps = 0
               /\ eps' = eps

\* C35: in the analysis route for a non-ETF symbol the company lookup
\* completes before any EPS insert is attempted, so whenever an EPS row is
\* inserted by the route a Companies row for the same symbol exists; if the
\* company lookup fails, no EPS fetch or insert happens in that request.
C35_CompanyBeforeEps == [][CompanyBeforeEps]_vars

\* One request for AAPL fetched the company row and then the EPS row.
C35_Witness ==
    /\ last.op = "analysis"
    /\ last.key = <<"AAPL">>
    /\ ~HasSymbol(etfs, "AAPL")
    /\ last.reqs.company = 1
    /\ last.reqs.eps = 1
    /\ HasSymbol(companies, "AAPL")
    /\ HasSymbol(eps, "AAPL")

\* A request for AAPL whose company search came back empty ended there: no
\* earnings request, no EPS row.
C35_WitnessFailed ==
    /\ last.op = "analysis"
    /\ last.key = <<"AAPL">>
    /\ last.err = "IndexError"
    /\ last.reqs.company = 1
    /\ last.reqs.eps = 0
    /\ ~HasSymbol(companies, "AAPL")
    /\ ~HasSymbol(eps, "AAPL")

-----------------------------------------------------------------------------
(* Two requests fetching the price history of a year at the same time.     *)

\* get_history_with_cache has returned, or raised: the requests it made,
\* the error raised, the error caught, the rows returned, and how many
\* entries of the year its response offered.
HistDone(key, nreq, err, caught, ret, offered) ==
    [pc |-> "done", op |-> "get_history_with_cache", key |-> key,
     nreq |-> nreq, err |-> err, caught |-> caught, ret |-> ret,
     offered |-> offered]

\* get_history_with_cache up to its presence test: df = load_table_history;
\* on a hit the stored rows are returned, on a miss the request is about to
\* be made.
HistBegin(P, S, Y) ==
    \E p \in P, sym \in S, y \in Y :
        /\ inflight[p].pc \in {"idle", "done"}
        /\ inflight' = [inflight EXCEPT ![p] =
               IF HasSymbol(history[y], sym)
               THEN HistDone(<<sym, y>>, 0, NoErr, NoErr,
                             RowsOf(history[y], sym), 0)
               ELSE [pc |-> "request", op |-> "get_history_with_cache",
                     key |-> <<sym, y>>]]
        /\ UNCHANGED <<today, clock, rates, etfs, companies, eps, history,
                       news, images, upload, csv, cum, last, prev>>

\* response = get_history_for(symbol) and response["Time Series (Daily)"]:
\* the entries of the year are about to be inserted, or the call has raised
\* or caught the KeyError of a response without the series.
HistRespond(P, R) ==
    \E p \in P, resp \in R :
        /\ inflight[p].pc = "request"
        /\ inflight[p].op = "get_history_with_cache"
        /\ inflight' = [inflight EXCEPT ![p] =
               IF resp.kind = "transport"
               THEN HistDone(@.key, 1, "ConnectionError", NoErr, "raised", 0)
               ELSE IF resp.kind = "note"
               THEN HistDone(@.key, 1, NoErr, "KeyError",
                             RowsOf(history[@.key[2]], @.key[1]), 0)
               ELSE LET es == SelectSeq(resp.series,
                                  LAMBDA e : YearOf(e[1]) = @.key[2])
                    IN  [pc |-> "insert", op |-> @.op, key |-> @.key,
                         todo |-> es, offered |-> Len(es)]]
        /\ UNCHANGED <<today, clock, rates, etfs, companies, eps, history,
                       news, images, upload, csv, cum, last, prev>>

\* One turn of the loop: insert_history for the next entry of the year,
\* committed at once; after the last one the table is loaded again and the
\* rows of the symbol are returned.  An entry without a field ends the loop
\* as the caught KeyError.
HistInsert(P) ==
    \E p \in P :
        /\ inflight[p].pc = "insert"
        /\ inflight[p].op = "get_history_with_cache"
        /\ LET f == inflight[p]
               sym == f.key[1]
               y == f.key[2]
           IN  IF f.todo = <<>>
               THEN /\ inflight' = [inflight EXCEPT ![p] =
                           HistDone(f.key, 1, NoErr, NoErr,
                                    RowsOf(history[y], sym), f.offered)]
                    /\ UNCHANGED history
               ELSE IF \E x \in {"open", "high", "low", "close", "volume",
                                 "adjusted"} : Lacks(Head(f.todo)[2], x)
               THEN /\ inflight' = [inflight EXCEPT ![p] =
                           HistDone(f.key, 1, NoErr, "KeyError",
                                    RowsOf(history[y], sym), f.offered)]
                    /\ UNCHANGED history
               ELSE \E ins \in {insert_history(history, RouteConn, sym,
                                                Head(f.todo)[1],
                                                Head(f.todo)[2])} :
                        /\ history' = ins.hist
                        /\ inflight' = [inflight EXCEPT ![p] =
                               IF ins.err # NoErr
                               THEN HistDone(f.key, 1, ins.err, NoErr,
                                             "raised", f.offered)
                               ELSE [f EXCEPT !.todo = Tail(f.todo)]]
        /\ UNCHANGED <<today, clock, rates, etfs, companies, eps, news,
                       images, upload, csv, cum, last, prev>>

NextRaceHist ==
    \/ HistBegin(Requests, {"AAPL"}, HistYears)
    \/ HistRespond(Requests, HistoryResponses)
    \/ HistInsert(Requests)

SpecRaceHist == Init /\ [][NextRaceHist]_vars

\* Request p has been through get_history_with_cache for the key, missed,
\* was offered entries of the year and went through them without catching
\* a KeyError.
FetchedTheYear(p, key) ==
    /\ inflight[p].pc = "done"
    /\ inflight[p].op = "get_history_with_cache"
    /\ inflight[p].key = key
    /\ inflight[p].nreq = 1
    /\ inflight[p].offered >= 1
    /\ inflight[p].caught = NoErr

\* The rows of the symbol and date in the table of the date's year.
RowsOfDay(symbol, date) ==
    SelectSeq(history[YearOf(date)],
              LAMBDA r : r.Symbol = symbol /\ r.Date = date)

\* Both requests missed the same (symbol, year) and both inserted the year:
\* neither insert was refused and every day of the year is stored twice.
YearStoredTwice(sym, y) ==
    (FetchedTheYear(1, <<sym, y>>) /\ FetchedTheYear(2, <<sym, y>>)) =>
        /\ inflight[1].err = NoErr
        /\ inflight[2].err = NoErr
        /\ inflight[1].offered = inflight[2].offered
        /\ Len(RowsOf(history[y], sym)) = 2 * inflight[1].offered
        /\ \A i \in 1 .. Len(history[y]) :
               history[y][i].Symbol = sym =>
                   Len(RowsOfDay(sym, history[y][i].Date)) = 2

\* C36: History<year> tables have no uniqueness constraint.  Two concurrent
\* requests for the same not-yet-cached (symbol, year) can both observe a
\* miss and both insert the full year; whenever that has happened every
\* (symbol, date) of the year is stored twice, and no step removes a row.
C36_DuplicateHistoryRows ==
    /\ [](\A sym \in CompanySymbols, y \in HistYears : YearStoredTwice(sym, y))
    /\ [][HistoryRowsStay]_vars

\* Both requests fetched 2020 for AAPL; the table holds four rows, two for
\* each day, and a request that came after them was served all four.
C36_Witness ==
    /\ FetchedTheYear(1, <<"AAPL", 2020>>)
    /\ FetchedTheYear(2, <<"AAPL", 2020>>)
    /\ Len(history[2020]) = 4
    /\ Len(RowsOfDay("AAPL", <<2020, 12, 31>>)) = 2
    /\ Len(RowsOfDay("AAPL", <<2020, 1, 2>>)) = 2

\* After both had inserted 2020, a later request found the symbol cached
\* and was returned the four rows.
C36_WitnessServed ==
    /\ inflight[1].pc = "done"
    /\ inflight[1].key = <<"AAPL", 2020>>
    /\ inflight[1].nreq = 0
    /\ Len(inflight[1].ret) = 4
    /\ Len(RowsOfDay("AAPL", <<2020, 1, 2>>)) = 2

====
